---- MODULE Spec2Model ----
(***************************************************************************)
(* Digital ant farm: the Colony (src/src/entities/colony.py) as a state    *)
(* machine.  One action per public operation; every action applies the     *)
(* whole handler, written as an operator on the colony record.             *)
(*                                                                         *)
(* Units.  Food is counted in hundredths of a food unit, so that the       *)
(* per-ant consumption rate 0.01 is the integer 1 and the caste costs      *)
(* 10/15/12/8 are 1000/1500/1200/800.  Experience is counted in            *)
(* thousandths of a point: receive_food adds amount * 0.1 points, which is *)
(* exactly the amount in hundredths.  Arithmetic is exact (the rounding of *)
(* binary floating point is not modelled).                                 *)
(*                                                                         *)
(* Time.  current_tick counts update calls.  time.time() is the variable   *)
(* now, advanced by the environment in whole steps.                        *)
(***************************************************************************)
EXTENDS Integers, Sequences, FiniteSets, TLC

VARIABLES
    colony,      \* the Colony object: a record of its fields
    next_id,     \* identity of the next Ant object the colony constructs
    now,         \* time.time()
    n_received,  \* number of receive_food calls made (bounds the run)
    field,       \* the PheromoneManager and a GroundCell: records of their fields
    ants,        \* the Ant objects' fields, by identity
    main,        \* the main loop: its position in the tick
    call         \* the last event: [op, arg, ret]

vars == <<colony, next_id, now, n_received, field, ants, main, call>>

(***************************************************************************)
(* Bounds of the model.  The durations, the health and the lifespan are    *)
(* the program's (900 ticks, 900 ticks, 60 ticks, 100 points, 1800 s) run  *)
(* at a short scale: nothing in the code depends on their magnitude.       *)
(***************************************************************************)
MaxTick == 5            \* update calls in a run
MaxAnts == 2            \* eggs laid + ants constructed by the colony in a run
MaxNow == 1             \* clock steps in a run
MaxReceive == 1         \* receive_food calls in a run
MaxCount == 2           \* largest count passed to spawn_multiple_ants
MaxPopArg == 2          \* largest max_population passed to the constructor
egg_duration == 2       \* colony.py:29 (ticks as egg)
pupa_duration == 1      \* colony.py:30 (ticks as pupa)
egg_laying_interval0 == 2   \* colony.py:25 (ticks between queen eggs)
ant_max_health == 2     \* colony.py:43
max_ant_lifespan == 0   \* colony.py:42 (clock steps)
MaxDeposits == 2        \* pheromones deposited from outside in a run
MaxFieldTick == 2       \* update_all / GroundCell.update calls in a run
MaxRemove == 2          \* remove_pheromone / clear_all calls in a run
MaxAntCalls == 4        \* calls made on the ants from outside in a run

(***************************************************************************)
(* Program constants.                                                      *)
(***************************************************************************)
INITIAL_FOOD == 81000 * 100          \* colony.py:34
INITIAL_MAX_FOOD == 100000 * 100     \* colony.py:35
food_consumption_rate == 1           \* colony.py:36: 0.01 food per ant per tick
ant_health_loss_per_tick == 1        \* colony.py:44
LEVEL_XP == 1000 * 1000              \* colony.py:368: 1000 points per level
LEVEL_POP_BONUS == 20                \* colony.py:375
LEVEL_FOOD_BONUS == 200 * 100        \* colony.py:376
max_health == 100                    \* colony.py:69

\* Python's None, where an Ant is expected
None == [id |-> 0, caste |-> "None"]

Min(a, b) == IF a <= b THEN a ELSE b
Max(a, b) == IF a >= b THEN a ELSE b

AntCaste == {"WORKER", "SOLDIER", "SCOUT", "NURSE"}

\* An Ant object: its identity and its caste (fixed at construction).
Ant(id, caste) == [id |-> id, caste |-> caste]

\* An Ant the colony never held (for remove_ant).
Stranger == Ant(-1, "SOLDIER")

RosterSet(c) == {c.ants[i] : i \in 1..Len(c.ants)}

\* Colony.population
population(c) == Len(c.ants)

\* Colony._get_caste_food_cost
_get_caste_food_cost(caste) ==
    CASE caste = "WORKER" -> 1000
      [] caste = "SOLDIER" -> 1500
      [] caste = "SCOUT" -> 1200
      [] caste = "NURSE" -> 800
      [] OTHER -> 1000

\* Colony.__init__
NewColony(max_pop) ==
    [ max_population |-> max_pop,
      spawn_rate |-> 10,
      egg_laying_interval |-> egg_laying_interval0,
      egg_laying_cooldown |-> 0,
      food_storage |-> INITIAL_FOOD,
      max_food_storage |-> INITIAL_MAX_FOOD,
      ants |-> << >>,
      ant_lifespans |-> << >>,
      ant_health |-> << >>,
      eggs |-> << >>,
      pupae |-> << >>,
      current_tick |-> 0,
      caste_populations |-> [k \in AntCaste |-> 0],
      total_food_collected |-> 0,
      total_ants_spawned |-> 0,
      total_ants_died |-> 0,
      development_level |-> 1,
      experience_points |-> 0,
      health |-> 100 ]

\* dict.get(key, default)
DictGet(d, key, default) == IF key \in DOMAIN d THEN d[key] ELSE default

\* del d[key]
DictDel(d, key) == [k \in (DOMAIN d) \ {key} |-> d[k]]

\* d[key] = value
DictSet(d, key, value) == [k \in (DOMAIN d) \cup {key} |-> IF k = key THEN value ELSE d[k]]

\* list.remove(x): drops the first element equal to x
RECURSIVE ListRemove(_, _)
ListRemove(s, x) ==
    IF s = << >> THEN << >>
    ELSE IF Head(s) = x THEN Tail(s)
    ELSE <<Head(s)>> \o ListRemove(Tail(s), x)

\* lay_egg with the capacity test off by one (> for >=)
lay_egg_off_by_one(c, caste) ==
    IF population(c) + Len(c.eggs) + Len(c.pupae) > c.max_population
    THEN [c |-> c, ret |-> FALSE]
    ELSE [c |-> [c EXCEPT !.eggs = Append(@,
                     [created_at |-> c.current_tick,
                      hatch_tick |-> c.current_tick + egg_duration,
                      caste |-> caste])],
          ret |-> TRUE]

\* Colony.lay_egg: the colony after the call and the value returned
lay_egg(c, caste) ==
    IF population(c) + Len(c.eggs) + Len(c.pupae) >= c.max_population
    THEN [c |-> c, ret |-> FALSE]
    ELSE [c |-> [c EXCEPT !.eggs = Append(@,
                     [created_at |-> c.current_tick,
                      hatch_tick |-> c.current_tick + egg_duration,
                      caste |-> caste])],
          ret |-> TRUE]

\* the pupa an egg hatches to (colony.py:107-108)
PupaOf(c, egg) ==
    [created_at |-> c.current_tick,
     hatch_tick |-> c.current_tick + pupa_duration,
     caste |-> egg.caste]

\* _hatch_eggs hatching one tick early
_hatch_eggs_early(c) ==
    LET ready == SelectSeq(c.eggs, LAMBDA egg : egg.hatch_tick <= c.current_tick + 1)
        rest == SelectSeq(c.eggs, LAMBDA egg : egg.hatch_tick > c.current_tick + 1)
    IN [c EXCEPT !.eggs = rest,
                 !.pupae = @ \o [i \in 1..Len(ready) |-> PupaOf(c, ready[i])]]

\* Colony._hatch_eggs
_hatch_eggs(c) ==
    LET ready == SelectSeq(c.eggs, LAMBDA egg : egg.hatch_tick <= c.current_tick)
        rest == SelectSeq(c.eggs, LAMBDA egg : egg.hatch_tick > c.current_tick)
    IN [c EXCEPT !.eggs = rest,
                 !.pupae = @ \o [i \in 1..Len(ready) |-> PupaOf(c, ready[i])]]

\* Colony._spawn_adult_ant: the new Ant has identity id, t is time.time()
_spawn_adult_ant(c, caste, id, t) ==
    [c EXCEPT !.ants = Append(@, Ant(id, caste)),
              !.ant_lifespans = DictSet(@, id, t),
              !.ant_health = DictSet(@, id, ant_max_health),
              !.total_ants_spawned = @ + 1,
              !.caste_populations[caste] = @ + 1]

\* the loop of _hatch_pupae over the ready pupae (colony.py:115-116)
RECURSIVE SpawnReady(_, _, _, _)
SpawnReady(c, ready, id, t) ==
    IF ready = << >> THEN c
    ELSE SpawnReady(_spawn_adult_ant(c, Head(ready).caste, id, t), Tail(ready), id + 1, t)

\* Colony._hatch_pupae
_hatch_pupae(c, id, t) ==
    LET ready == SelectSeq(c.pupae, LAMBDA pupa : pupa.hatch_tick <= c.current_tick)
        rest == SelectSeq(c.pupae, LAMBDA pupa : pupa.hatch_tick > c.current_tick)
    IN SpawnReady([c EXCEPT !.pupae = rest], ready, id, t)

\* spawn_ant charging the food before it checks that the food suffices
spawn_ant_charge_first(c, caste, id, t) ==
    LET food_cost == _get_caste_food_cost(caste)
        charged == [c EXCEPT !.food_storage = @ - food_cost]
    IN
    IF population(c) >= c.max_population THEN [c |-> c, ret |-> None]
    ELSE IF c.food_storage < food_cost THEN [c |-> charged, ret |-> None]
    ELSE [c |-> [charged EXCEPT !.ants = Append(@, Ant(id, caste)),
                          !.ant_lifespans = DictSet(@, id, t),
                          !.ant_health = DictSet(@, id, ant_max_health),
                          !.total_ants_spawned = @ + 1,
                          !.caste_populations[caste] = @ + 1],
          ret |-> Ant(id, caste)]

\* Colony.spawn_ant: the colony after the call and the Ant returned (or None)
spawn_ant(c, caste, id, t) ==
    LET food_cost == _get_caste_food_cost(caste) IN
    IF population(c) >= c.max_population THEN [c |-> c, ret |-> None]
    ELSE IF c.food_storage < food_cost THEN [c |-> c, ret |-> None]
    ELSE [c |-> [c EXCEPT !.ants = Append(@, Ant(id, caste)),
                          !.ant_lifespans = DictSet(@, id, t),
                          !.ant_health = DictSet(@, id, ant_max_health),
                          !.total_ants_spawned = @ + 1,
                          !.caste_populations[caste] = @ + 1,
                          !.food_storage = @ - food_cost],
          ret |-> Ant(id, caste)]

\* Colony.spawn_multiple_ants: the loop, with the list spawned so far
RECURSIVE SpawnLoop(_, _, _, _, _, _)
SpawnLoop(c, caste, count, id, t, spawned_ants) ==
    IF count <= 0 THEN [c |-> c, ret |-> spawned_ants]
    ELSE LET r == spawn_ant(c, caste, id, t) IN
         IF r.ret # None
         THEN SpawnLoop(r.c, caste, count - 1, id + 1, t, Append(spawned_ants, r.ret))
         ELSE [c |-> c, ret |-> spawned_ants]

\* Colony.spawn_multiple_ants
spawn_multiple_ants(c, caste, count, id, t) == SpawnLoop(c, caste, count, id, t, << >>)

\* can_spawn_caste asking for the food of one ant only
can_spawn_caste_one_cost(c, caste, count) ==
    IF population(c) + count > c.max_population THEN FALSE
    ELSE c.food_storage >= _get_caste_food_cost(caste)

\* Colony.can_spawn_caste
can_spawn_caste(c, caste, count) ==
    IF population(c) + count > c.max_population THEN FALSE
    ELSE c.food_storage >= _get_caste_food_cost(caste) * count

\* receive_food without the clamp to the free space
receive_food_unclamped(c, amount) ==
    [c |-> [c EXCEPT !.food_storage = @ + amount,
                     !.total_food_collected = @ + amount,
                     !.experience_points = @ + amount],
     ret |-> amount]

\* Colony.receive_food: the colony after the call and the amount returned
receive_food(c, amount) ==
    LET space_available == c.max_food_storage - c.food_storage
        actual_amount == Min(amount, space_available)
    IN [c |-> [c EXCEPT !.food_storage = @ + actual_amount,
                        !.total_food_collected = @ + actual_amount,
                        !.experience_points = @ + actual_amount],
        ret |-> actual_amount]

\* _remove_ant leaving the caste counter as it is
_remove_ant_keep_counter(c, ant) ==
    IF ant \in RosterSet(c)
    THEN [c EXCEPT !.ants = ListRemove(@, ant),
                   !.ant_lifespans = DictDel(@, ant.id),
                   !.ant_health = DictDel(@, ant.id),
                   !.total_ants_died = @ + 1]
    ELSE c

\* _remove_ant counting a death whether or not the ant was in the roster
_remove_ant_always_counts(c, ant) ==
    [(IF ant \in RosterSet(c)
      THEN [c EXCEPT !.ants = ListRemove(@, ant),
                     !.ant_lifespans = DictDel(@, ant.id),
                     !.ant_health = DictDel(@, ant.id),
                     !.caste_populations[ant.caste] = Max(0, @ - 1)]
      ELSE c) EXCEPT !.total_ants_died = @ + 1]

\* _remove_ant leaving the health record of the ant behind
_remove_ant_keep_health(c, ant) ==
    IF ant \in RosterSet(c)
    THEN [c EXCEPT !.ants = ListRemove(@, ant),
                   !.ant_lifespans = DictDel(@, ant.id),
                   !.caste_populations[ant.caste] = Max(0, @ - 1),
                   !.total_ants_died = @ + 1]
    ELSE c

\* Colony._remove_ant
_remove_ant(c, ant) ==
    IF ant \in RosterSet(c)
    THEN [c EXCEPT !.ants = ListRemove(@, ant),
                   !.ant_lifespans = DictDel(@, ant.id),
                   !.ant_health = DictDel(@, ant.id),
                   !.caste_populations[ant.caste] = Max(0, @ - 1),
                   !.total_ants_died = @ + 1]
    ELSE c

\* _check_development dropping the surplus experience at a level-up
_check_development_reset(c) ==
    LET required_xp == c.development_level * LEVEL_XP IN
    IF c.experience_points >= required_xp
    THEN [c EXCEPT !.development_level = @ + 1,
                   !.experience_points = 0,
                   !.max_population = @ + LEVEL_POP_BONUS,
                   !.max_food_storage = @ + LEVEL_FOOD_BONUS,
                   !.health = Min(max_health, @ + 20),
                   !.spawn_rate = @ + 2]
    ELSE c

\* Colony._check_development
_check_development(c) ==
    LET required_xp == c.development_level * LEVEL_XP IN
    IF c.experience_points >= required_xp
    THEN [c EXCEPT !.development_level = @ + 1,
                   !.experience_points = @ - required_xp,
                   !.max_population = @ + LEVEL_POP_BONUS,
                   !.max_food_storage = @ + LEVEL_FOOD_BONUS,
                   !.health = Min(max_health, @ + 20),
                   !.spawn_rate = @ + 2]
    ELSE c

\* step 1 of update: the queen lays at a fixed interval (colony.py:304-310)
QueenStep(c) ==
    LET c1 == [c EXCEPT !.current_tick = @ + 1] IN
    IF c1.egg_laying_cooldown <= 0
    THEN [lay_egg(c1, "WORKER").c EXCEPT !.egg_laying_cooldown = c1.egg_laying_interval]
    ELSE [c1 EXCEPT !.egg_laying_cooldown = @ - 1]

\* the food upkeep starving only the first ant of the roster
FoodUpkeep_first_only(c) ==
    LET food_needed == population(c) * food_consumption_rate IN
    IF c.food_storage >= food_needed
    THEN [c EXCEPT !.food_storage = @ - food_needed]
    ELSE [c EXCEPT !.food_storage = 0,
                   !.ant_health = [k \in DOMAIN @ |->
                       IF c.ants # << >> /\ c.ants[1].id = k
                       THEN @[k] - ant_health_loss_per_tick ELSE @[k]]]

\* step 3 of update: food consumption and health (colony.py:314-325)
FoodUpkeep(c) ==
    LET food_needed == population(c) * food_consumption_rate IN
    IF c.food_storage >= food_needed
    THEN [c EXCEPT !.food_storage = @ - food_needed]
    ELSE [c EXCEPT !.food_storage = 0,
                   !.ant_health = [k \in DOMAIN @ |->
                       IF \E i \in 1..Len(c.ants) : c.ants[i].id = k
                       THEN @[k] - ant_health_loss_per_tick ELSE @[k]]]

\* the removal test sparing an ant whose health is exactly 0 (< for <=)
AntsToRemove_below_zero(c, t) ==
    SelectSeq(c.ants, LAMBDA ant :
        \/ DictGet(c.ant_health, ant.id, ant_max_health) < 0
        \/ t - DictGet(c.ant_lifespans, ant.id, t) > max_ant_lifespan)

\* the ants step 4 of update marks for removal, in roster order (colony.py:327-338)
AntsToRemove(c, t) ==
    SelectSeq(c.ants, LAMBDA ant :
        \/ DictGet(c.ant_health, ant.id, ant_max_health) <= 0
        \/ t - DictGet(c.ant_lifespans, ant.id, t) > max_ant_lifespan)

\* the removal loop of step 4 (colony.py:339-340)
RECURSIVE RemoveAll(_, _)
RemoveAll(c, ants_to_remove) ==
    IF ants_to_remove = << >> THEN c
    ELSE RemoveAll(_remove_ant(c, Head(ants_to_remove)), Tail(ants_to_remove))

\* step 4 of update: remove dead ants
Cull(c, t) == RemoveAll(c, AntsToRemove(c, t))

\* steps 1 and 2 of update: the colony as the food upkeep finds it
Hatched(c, id, t) == _hatch_pupae(_hatch_eggs(QueenStep(c)), id, t)

\* update feeding the roster before this tick's pupae have hatched
update_upkeep_first(c, id, t) ==
    _check_development(Cull(_hatch_pupae(_hatch_eggs(FoodUpkeep(QueenStep(c))), id, t), t))

\* Colony.update
update(c, id, t) == _check_development(Cull(FoodUpkeep(Hatched(c, id, t)), t))

\* Colony.add_ant
add_ant(c, ant, t) ==
    IF ant \notin RosterSet(c) /\ population(c) < c.max_population
    THEN [c EXCEPT !.ants = Append(@, ant),
                   !.ant_lifespans = DictSet(@, ant.id, t),
                   !.ant_health = DictSet(@, ant.id, ant_max_health),
                   !.caste_populations[ant.caste] = @ + 1]
    ELSE c

\* Colony.remove_ant
remove_ant(c, ant) == _remove_ant(c, ant)


(***************************************************************************)
(* The state machine.                                                      *)
(***************************************************************************)

\* Amounts passed to receive_food: a negative one, a small one, and one
\* larger than any free space.
Amounts == {-100, 2600, 2 * INITIAL_MAX_FOOD}

\* Food levels of a colony that has been running: every multiple of 800 below
\* INITIAL_FOOD is reached from a new colony by spawning a NURSE (cost 8.00)
\* and removing it again, (INITIAL_FOOD - f) / 800 times.
RunDownFoods == {0, 2400}

RunDown(c, f) ==
    [c EXCEPT !.food_storage = f,
              !.total_ants_spawned = (INITIAL_FOOD - f) \div 800,
              !.total_ants_died = (INITIAL_FOOD - f) \div 800]

\* An event: the operation called, its arguments and the value it returned,
\* each a record named after what it holds.
Event(op, arg, ret) == [op |-> op, arg |-> arg, ret |-> ret]

NoValue == [none |-> TRUE]

(***************************************************************************)
(* Pheromones (src/src/entities/pheromone.py, ground.py).  Strengths,      *)
(* decay rates, radii and coordinates are integers (hundredths of the      *)
(* program's units in the runs that spread); the factors 0.4 and 0.8 and   *)
(* the ground's decay multiplier are fractions <<numerator, denominator>>. *)
(***************************************************************************)

PheromoneType == {"FOOD_TRAIL", "HOME_TRAIL", "DANGER"}

\* a fraction of x
Frac(x, f) == (x * f[1]) \div f[2]

\* Pheromone.__init__: the object of identity id built from the arguments a
\* at time t; a.spread_radius is [value |-> r] or NoValue (Python's None)
Pheromone(id, a, t) ==
    [ id |-> id,
      position |-> a.position,
      type |-> a.pheromone_type,
      strength |-> a.strength,
      max_strength |-> a.strength,
      decay_rate |-> a.decay_rate,
      creation_time |-> t,
      radius_of_influence |-> a.radius_of_influence,
      can_spread |-> a.can_spread,
      spread_radius |-> IF a.spread_radius # NoValue
                        THEN a.spread_radius.value
                        ELSE a.radius_of_influence * 2,
      spread_strength_factor |-> a.spread_strength_factor,
      spread_delay |-> a.spread_delay,
      has_spread |-> FALSE,
      is_spread_deposit |-> a.is_spread_deposit ]

\* the defaults of the keyword arguments of Pheromone.__init__ / add_pheromone
DefaultArgs ==
    [ strength |-> 10000, decay_rate |-> 100, radius_of_influence |-> 2000,
      can_spread |-> TRUE, spread_radius |-> NoValue,
      spread_strength_factor |-> <<2, 5>>, spread_delay |-> 2,
      is_spread_deposit |-> FALSE ]

\* Pheromone.should_spread at time t
should_spread(p, t) ==
    /\ p.can_spread
    /\ ~p.has_spread
    /\ ~p.is_spread_deposit
    /\ t - p.creation_time >= p.spread_delay

\* Pheromone.update: the pheromone after the decay (it is to be removed when
\* its strength is <= 0)
Pheromone_update(p) == [p EXCEPT !.strength = @ - p.decay_rate]

\* Pheromone.reinforce
reinforce(p, additional_strength) ==
    [p EXCEPT !.strength = Min(p.max_strength, @ + additional_strength)]

\* _spatial_grid with no bucket: the buckets are sequences of the identities
\* of the pheromones they refer to, keyed by cell
EmptyGrid == [key \in {} |-> << >>]

\* PheromoneManager._get_cell_key
_get_cell_key(f, position) ==
    <<position[1] \div f.grid_size, position[2] \div f.grid_size>>

\* PheromoneManager._add_to_spatial_grid
_add_to_spatial_grid(f, pheromone) ==
    LET cell_key == _get_cell_key(f, pheromone.position) IN
    [f EXCEPT !.spatial_grid =
        IF cell_key \in DOMAIN @ THEN [@ EXCEPT ![cell_key] = Append(@, pheromone.id)]
        ELSE [key \in DOMAIN @ \cup {cell_key} |->
                 IF key = cell_key THEN <<pheromone.id>> ELSE @[key]]]

\* list.remove: the sequence without the first occurrence of x
RemoveFirst(seq, x) ==
    IF \E k \in 1..Len(seq) : seq[k] = x
    THEN LET i == CHOOSE k \in 1..Len(seq) :
                      seq[k] = x /\ \A j \in 1..(k - 1) : seq[j] # x
         IN SubSeq(seq, 1, i - 1) \o SubSeq(seq, i + 1, Len(seq))
    ELSE seq

\* PheromoneManager._remove_from_spatial_grid
_remove_from_spatial_grid(f, pheromone) ==
    LET cell_key == _get_cell_key(f, pheromone.position)
        bucket == RemoveFirst(f.spatial_grid[cell_key], pheromone.id)
    IN IF cell_key \notin DOMAIN f.spatial_grid THEN f
       ELSE IF bucket = << >>
            THEN [f EXCEPT !.spatial_grid = [key \in DOMAIN @ \ {cell_key} |-> @[key]]]
            ELSE [f EXCEPT !.spatial_grid[cell_key] = bucket]

\* PheromoneManager.__init__, GroundCell.__init__; n_deposited, n_updates and
\* n_removals count the calls made (they bound the run)
NewField ==
    [ pheromones |-> << >>,
      spatial_grid |-> EmptyGrid,
      grid_size |-> 4000,
      world_bounds |-> <<0, 0, 80000, 60000>>,
      cell |-> << >>,
      next_pid |-> 1,
      n_deposited |-> 0,
      n_updates |-> 0,
      n_removals |-> 0 ]

\* PheromoneManager.add_pheromone
add_pheromone(f, a, t) ==
    LET pheromone == Pheromone(f.next_pid, a, t) IN
    _add_to_spatial_grid([f EXCEPT !.pheromones = Append(@, pheromone),
                                   !.next_pid = @ + 1],
                         pheromone)

\* pheromone in self._pheromones (objects compare by identity)
InField(f, pheromone) == \E k \in 1..Len(f.pheromones) : f.pheromones[k].id = pheromone.id

\* remove_pheromone leaving the pheromone in its bucket of the grid
remove_pheromone_list_only(f, pheromone) ==
    IF InField(f, pheromone)
    THEN [f EXCEPT !.pheromones = SelectSeq(@, LAMBDA p : p.id # pheromone.id)]
    ELSE f

\* PheromoneManager.remove_pheromone
remove_pheromone(f, pheromone) ==
    IF InField(f, pheromone)
    THEN _remove_from_spatial_grid(
             [f EXCEPT !.pheromones = SelectSeq(@, LAMBDA p : p.id # pheromone.id)],
             pheromone)
    ELSE f

\* PheromoneManager.clear_all
clear_all(f) == [f EXCEPT !.pheromones = << >>, !.spatial_grid = EmptyGrid]

\* GroundSystem.add_pheromone / GroundCell.add_pheromone
GroundCell_add_pheromone(f, a, t) ==
    [f EXCEPT !.cell = Append(@, Pheromone(f.next_pid,
                  [DefaultArgs EXCEPT !.strength = a.strength,
                                      !.decay_rate = a.decay_rate,
                                      !.radius_of_influence = a.radius_of_influence]
                  @@ [position |-> a.position, pheromone_type |-> a.pheromone_type], t)),
              !.next_pid = @ + 1]

\* cos(pi/4) * r = sin(pi/4) * r, cut to the unit of the coordinates
Diag(r) == IF r >= 0 THEN (r * 7071) \div 10000 ELSE -((-r * 7071) \div 10000)

\* (cos(angle) * spread_radius, sin(angle) * spread_radius), angle = 2 pi i / 8
SpreadOffset(i, r) ==
    CASE i = 0 -> <<r, 0>>
      [] i = 1 -> <<Diag(r), Diag(r)>>
      [] i = 2 -> <<0, r>>
      [] i = 3 -> <<-Diag(r), Diag(r)>>
      [] i = 4 -> <<-r, 0>>
      [] i = 5 -> <<-Diag(r), -Diag(r)>>
      [] i = 6 -> <<0, -r>>
      [] i = 7 -> <<Diag(r), -Diag(r)>>

InWorld(f, x, y) ==
    /\ f.world_bounds[1] <= x /\ x <= f.world_bounds[3]
    /\ f.world_bounds[2] <= y /\ y <= f.world_bounds[4]

\* the spread deposits taking the strength the original has left
SpreadArgs_current_strength(original, x, y) ==
    [DefaultArgs EXCEPT
        !.strength = Frac(original.strength, original.spread_strength_factor),
        !.decay_rate = original.decay_rate,
        !.radius_of_influence = Frac(original.radius_of_influence, <<4, 5>>),
        !.can_spread = FALSE,
        !.is_spread_deposit = TRUE]
    @@ [position |-> <<x, y>>, pheromone_type |-> original.type]

\* the arguments _create_spread_deposits passes to add_pheromone
SpreadArgs(original, x, y) ==
    [DefaultArgs EXCEPT
        !.strength = Frac(original.max_strength, original.spread_strength_factor),
        !.decay_rate = original.decay_rate,
        !.radius_of_influence = Frac(original.radius_of_influence, <<4, 5>>),
        !.can_spread = FALSE,
        !.is_spread_deposit = TRUE]
    @@ [position |-> <<x, y>>, pheromone_type |-> original.type]

\* the loop of _create_spread_deposits, from deposit i on (pheromone.py:214-234)
RECURSIVE SpreadLoop(_, _, _, _)
SpreadLoop(f, original, i, t) ==
    IF i >= 8 THEN f
    ELSE LET off == SpreadOffset(i, original.spread_radius)
             spread_x == original.position[1] + off[1]
             spread_y == original.position[2] + off[2]
         IN SpreadLoop(IF InWorld(f, spread_x, spread_y)
                       THEN add_pheromone(f, SpreadArgs(original, spread_x, spread_y), t)
                       ELSE f,
                       original, i + 1, t)

\* Pheromone.mark_as_spread on the pheromone of identity id
mark_as_spread(f, id) ==
    [f EXCEPT !.pheromones =
        [k \in 1..Len(@) |-> IF @[k].id = id THEN [@[k] EXCEPT !.has_spread = TRUE]
                                               ELSE @[k]]]

\* _create_spread_deposits forgetting to mark the original as spread
_create_spread_deposits_unmarked(f, original_pheromone, t) ==
    IF ~should_spread(original_pheromone, t) THEN f
    ELSE SpreadLoop(f, original_pheromone, 0, t)

\* PheromoneManager._create_spread_deposits
_create_spread_deposits(f, original_pheromone, t) ==
    IF ~should_spread(original_pheromone, t) THEN f
    ELSE mark_as_spread(SpreadLoop(f, original_pheromone, 0, t), original_pheromone.id)

\* the second loop of update_all (pheromone.py:350-351), over identities
RECURSIVE SpreadAll(_, _, _)
SpreadAll(f, ids, t) ==
    IF ids = << >> THEN f
    ELSE LET k == CHOOSE k \in 1..Len(f.pheromones) : f.pheromones[k].id = Head(ids)
         IN SpreadAll(_create_spread_deposits(f, f.pheromones[k], t), Tail(ids), t)

Ids(seq) == [k \in 1..Len(seq) |-> seq[k].id]

\* the third loop of update_all (pheromone.py:354-355)
RECURSIVE RemoveDepleted(_, _)
RemoveDepleted(f, to_remove) ==
    IF to_remove = << >> THEN f
    ELSE RemoveDepleted(remove_pheromone(f, Head(to_remove)), Tail(to_remove))

\* PheromoneManager.update_all at time t
update_all(f, t) ==
    LET pheromones_to_spread == Ids(SelectSeq(f.pheromones, LAMBDA p : should_spread(p, t)))
        decayed == [k \in 1..Len(f.pheromones) |-> Pheromone_update(f.pheromones[k])]
        pheromones_to_remove == SelectSeq(decayed, LAMBDA p : p.strength <= 0)
        spread == SpreadAll([f EXCEPT !.pheromones = decayed], pheromones_to_spread, t)
    IN RemoveDepleted(spread, pheromones_to_remove)

\* GroundCell.update (ground.py:64-79): the decay, with the multiplier the
\* ground's moisture, temperature and porosity give
GroundCell_update(f, ground_decay_multiplier, delta_time) ==
    [f EXCEPT !.cell = SelectSeq(
        [k \in 1..Len(@) |->
            [@[k] EXCEPT !.strength =
                @ - Frac(f.cell[k].decay_rate, ground_decay_multiplier) * delta_time]],
        LAMBDA p : p.strength > 0)]

\* np.sqrt on non-negative integers: the largest r in lo..hi with r * r <= n
RECURSIVE SqrtBetween(_, _, _)
SqrtBetween(n, lo, hi) ==
    IF lo >= hi THEN lo
    ELSE LET mid == (lo + hi + 1) \div 2 IN
         IF mid * mid <= n THEN SqrtBetween(n, mid, hi)
                           ELSE SqrtBetween(n, lo, mid - 1)

sqrt(n) == SqrtBetween(n, 0, IF n < 46340 THEN n ELSE 46340)

\* Pheromone.distance_to
distance_to(p, position) ==
    LET dx == position[1] - p.position[1]
        dy == position[2] - p.position[2]
    IN sqrt(dx * dx + dy * dy)

\* Pheromone.is_within_range
is_within_range(p, position) == distance_to(p, position) <= p.radius_of_influence

\* Pheromone.get_influence_strength: linear falloff with distance
get_influence_strength(p, position) ==
    LET distance == distance_to(p, position) IN
    IF distance > p.radius_of_influence THEN 0
    ELSE (p.strength * (p.radius_of_influence - distance)) \div p.radius_of_influence

\* PheromoneManager.get_pheromones_in_range: the cells of _get_nearby_cells
\* cover every position within radius, so the grid filters nothing more
get_pheromones_in_range(f, position, radius, pheromone_type) ==
    SelectSeq(f.pheromones,
              LAMBDA p : /\ pheromone_type # NoValue => p.type = pheromone_type.value
                         /\ is_within_range(p, position)
                         /\ distance_to(p, position) <= radius)

\* the loop of get_pheromone_direction: <<gradient_x, gradient_y>> after the
\* pheromones nearby[k..]
RECURSIVE GradientFrom(_, _, _)
GradientFrom(nearby, position, k) ==
    IF k > Len(nearby) THEN <<0, 0>>
    ELSE LET pheromone == nearby[k]
             rest == GradientFrom(nearby, position, k + 1)
             distance == distance_to(pheromone, position)
             influence == get_influence_strength(pheromone, position)
             dx == pheromone.position[1] - position[1]
             dy == pheromone.position[2] - position[2]
             length == sqrt(dx * dx + dy * dy)
         IN IF distance = 0 THEN rest
            ELSE <<rest[1] + (dx * influence) \div length,
                   rest[2] + (dy * influence) \div length>>

\* PheromoneManager.get_pheromone_direction: NoValue, or the direction in
\* hundredths (<<100, 0>> is (1.0, 0.0))
get_pheromone_direction(f, position, pheromone_type, radius) ==
    LET nearby_pheromones ==
            get_pheromones_in_range(f, position, radius, [value |-> pheromone_type])
        gradient == GradientFrom(nearby_pheromones, position, 1)
        gradient_length == sqrt(gradient[1] * gradient[1] + gradient[2] * gradient[2])
    IN IF Len(nearby_pheromones) = 0 THEN NoValue
       ELSE IF gradient_length > 0
            THEN [value |-> <<(gradient[1] * 100) \div gradient_length,
                              (gradient[2] * 100) \div gradient_length>>]
            ELSE NoValue

(***************************************************************************)
(* The ants' bodies (ant.py).  Positions and lengths are in hundredths of  *)
(* the program's unit, angles in tenths of a degree; velocities and the    *)
(* factors applied to them are exact fractions <<numerator, denominator>>  *)
(* of the program's unit, in lowest terms.                                 *)
(***************************************************************************)

AntState == {"IDLE", "SEARCHING", "RETURNING", "FOLLOWING_TRAIL"}

Abs(x) == IF x >= 0 THEN x ELSE -x

RECURSIVE GCD(_, _)
GCD(a, b) == IF b = 0 THEN a ELSE GCD(b, a % b)

\* the fraction n / d (d > 0) in lowest terms
Q(n, d) == LET g == GCD(Abs(n), d) IN <<n \div g, d \div g>>

QMul(a, b) == Q(a[1] * b[1], a[2] * b[2])

QDiv(a, b) == Q(a[1] * b[2], a[2] * b[1])

QAdd(a, b) == Q(a[1] * b[2] + b[1] * a[2], a[2] * b[2])

QSub(a, b) == Q(a[1] * b[2] - b[1] * a[2], a[2] * b[2])

QLess(a, b) == a[1] * b[2] < b[1] * a[2]

QMin(a, b) == IF QLess(b, a) THEN b ELSE a

QMax(a, b) == IF QLess(a, b) THEN b ELSE a

\* x * c / d cut towards zero
Scale(x, c, d) == IF x * c >= 0 THEN (x * c) \div d ELSE -((-(x * c)) \div d)

\* 1000 sin of an angle of 0..180 degrees (Bhaskara's formula, exact at 0, 30,
\* 90, 150 and 180 degrees and within 0.2 % of 1 elsewhere)
SinHalfTurn(p) == LET q == p * (1800 - p) IN (400 * q) \div ((4050000 - q) \div 10)

\* 1000 np.sin(np.deg2rad(o)), 1000 np.cos(np.deg2rad(o))
Sin1000(o) == LET p == o % 3600 IN IF p <= 1800 THEN SinHalfTurn(p) ELSE -SinHalfTurn(p - 1800)

Cos1000(o) == Sin1000(o + 900)

\* arctan(a / b) for 0 <= a <= b, b > 0, in tenths of a degree (exact at
\* a = 0 and a = b, within 0.3 degrees elsewhere)
ArctanOctant(a, b) == (a * (6066 * b - 1566 * a)) \div (10 * b * b)

\* np.rad2deg(np.arctan2(y, x)), in -1799..1800
arctan2(y, x) ==
    LET m == IF Abs(x) >= Abs(y) THEN Abs(x) ELSE Abs(y)
        k == (m + 499) \div 500
        ax == IF k > 1 THEN Abs(x) \div k ELSE Abs(x)
        ay == IF k > 1 THEN Abs(y) \div k ELSE Abs(y)
        first == IF ax = 0 /\ ay = 0 THEN 0
                 ELSE IF ay <= ax THEN ArctanOctant(ay, ax)
                 ELSE 900 - ArctanOctant(ax, ay)
    IN IF x >= 0 THEN (IF y >= 0 THEN first ELSE -first)
       ELSE (IF y >= 0 THEN 1800 - first ELSE first - 1800)

\* Ant._apply_caste_modifiers
_apply_caste_modifiers(a) ==
    CASE a.caste = "WORKER" -> a
      [] a.caste = "SOLDIER" ->
            [a EXCEPT !.max_velocity = QMul(@, <<4, 5>>),
                      !.detection_radius = Frac(@, <<13, 10>>)]
      [] a.caste = "SCOUT" ->
            [a EXCEPT !.max_velocity = QMul(@, <<7, 5>>),
                      !.detection_radius = Frac(@, <<3, 2>>),
                      !.turn_speed = Frac(@, <<6, 5>>)]
      [] a.caste = "NURSE" ->
            [a EXCEPT !.max_velocity = QMul(@, <<9, 10>>),
                      !.detection_radius = Frac(@, <<4, 5>>)]

\* Ant.__init__; pheromone_manager is "None" until set_pheromone_manager, and
\* food_source_position and food_amount are NoValue while the main loop has
\* not set the attributes
NewAnt(position, orientation, caste) ==
    _apply_caste_modifiers(
        [ position |-> position,
          orientation |-> orientation,
          carrying_food |-> FALSE,
          state |-> "IDLE",
          caste |-> caste,
          velocity |-> <<0, 1>>,
          max_velocity |-> <<2, 1>>,
          acceleration |-> <<1, 2>>,
          turn_speed |-> 30,
          detection_radius |-> 2000,
          world_bounds |-> <<0, 0, 80000, 60000>>,
          pheromone_manager |-> "None",
          food_source_position |-> NoValue,
          food_amount |-> NoValue,
          return_to_food_source |-> FALSE ])

\* Ant.set_state
set_state(a, new_state) == [a EXCEPT !.state = new_state]

\* Ant.set_orientation
set_orientation(a, orientation) == [a EXCEPT !.orientation = orientation % 3600]

\* the setter of Ant.orientation
orientation_setter(a, value) == [a EXCEPT !.orientation = value]

\* Ant.set_carrying_food
set_carrying_food(a, carrying) ==
    [a EXCEPT !.carrying_food = carrying,
              !.max_velocity = IF carrying THEN QMul(@, <<7, 10>>) ELSE QDiv(@, <<7, 10>>)]

\* Ant.set_world_bounds
set_world_bounds(a, bounds) == [a EXCEPT !.world_bounds = bounds]

\* Ant.set_pheromone_manager
set_pheromone_manager(a, pheromone_manager) == [a EXCEPT !.pheromone_manager = pheromone_manager]

\* Ant.move without the boundary constraints
move_unclamped(a, step_size) ==
    [a EXCEPT !.position =
        <<@[1] + Scale(step_size[1] * 100, Cos1000(a.orientation), step_size[2] * 1000),
          @[2] + Scale(step_size[1] * 100, Sin1000(a.orientation), step_size[2] * 1000)>>]

\* Ant.move: step_size is a fraction of the unit
move(a, step_size) ==
    LET dx == Scale(step_size[1] * 100, Cos1000(a.orientation), step_size[2] * 1000)
        dy == Scale(step_size[1] * 100, Sin1000(a.orientation), step_size[2] * 1000)
        new_x == Max(a.world_bounds[1], Min(a.world_bounds[3], a.position[1] + dx))
        new_y == Max(a.world_bounds[2], Min(a.world_bounds[4], a.position[2] + dy))
    IN [a EXCEPT !.position = <<new_x, new_y>>]

\* Ant.accelerate
accelerate(a, target_velocity) ==
    IF QLess(a.velocity, target_velocity)
    THEN [a EXCEPT !.velocity = QMin(target_velocity, QAdd(@, a.acceleration))]
    ELSE IF QLess(target_velocity, a.velocity)
    THEN [a EXCEPT !.velocity = QMax(target_velocity, QSub(@, a.acceleration))]
    ELSE a

\* Ant.turn_towards
turn_towards(a, target_angle) ==
    LET d == (target_angle - a.orientation) % 3600
        angle_diff == IF d > 1800 THEN d - 3600 ELSE d
    IN IF Abs(angle_diff) <= a.turn_speed
       THEN [a EXCEPT !.orientation = target_angle]
       ELSE [a EXCEPT !.orientation =
                (@ + (IF angle_diff > 0 THEN 1 ELSE -1) * a.turn_speed) % 3600]

\* Ant.random_walk: turn_amount is the angle drawn when
\* np.random.random() < randomness, NoValue when no turn is drawn
random_walk(a, turn_amount) ==
    LET turned == IF turn_amount # NoValue
                  THEN [a EXCEPT !.orientation = (@ + turn_amount.value) % 3600]
                  ELSE a
        sped == accelerate(turned, turned.max_velocity)
    IN move(sped, sped.velocity)

\* Ant.sense_pheromone_gradient against a PheromoneManager; a GroundSystem
\* raises AttributeError (ground.py:226) as soon as a pheromone of the type
\* lies within the radius at a distance > 0
sense_pheromone_gradient(a, f, pheromone_type, radius) ==
    IF a.pheromone_manager = "PheromoneManager"
    THEN get_pheromone_direction(f, a.position, pheromone_type, radius)
    ELSE NoValue

\* turn, speed up and move, as step does when it follows a direction
Follow(a, angle, target_velocity) ==
    LET turned == turn_towards(a, angle)
        sped == accelerate(turned, target_velocity)
    IN move(sped, sped.velocity)

\* step with the RETURNING ant walking on as the SEARCHING one does
step_returning_walks(a, f, turn_amount) ==
    LET food_direction == sense_pheromone_gradient(a, f, "FOOD_TRAIL", 6000)
        home_direction == sense_pheromone_gradient(a, f, "HOME_TRAIL", 4000)
    IN CASE a.state = "SEARCHING" ->
              IF food_direction # NoValue
              THEN set_state(Follow(a, arctan2(food_direction.value[2], food_direction.value[1]),
                                    a.max_velocity),
                             "FOLLOWING_TRAIL")
              ELSE IF home_direction # NoValue
              THEN Follow(a, arctan2(-home_direction.value[2], -home_direction.value[1]),
                          QMul(a.max_velocity, <<4, 5>>))
              ELSE random_walk(a, turn_amount)
         [] a.state = "RETURNING" -> random_walk(a, turn_amount)
         [] a.state = "FOLLOWING_TRAIL" ->
              IF food_direction # NoValue
              THEN Follow(a, arctan2(food_direction.value[2], food_direction.value[1]),
                          a.max_velocity)
              ELSE random_walk(set_state(a, "SEARCHING"), turn_amount)
         [] OTHER -> a

\* Ant.step
step(a, f, turn_amount) ==
    LET food_direction == sense_pheromone_gradient(a, f, "FOOD_TRAIL", 6000)
        home_direction == sense_pheromone_gradient(a, f, "HOME_TRAIL", 4000)
    IN CASE a.state = "SEARCHING" ->
              IF food_direction # NoValue
              THEN set_state(Follow(a, arctan2(food_direction.value[2], food_direction.value[1]),
                                    a.max_velocity),
                             "FOLLOWING_TRAIL")
              ELSE IF home_direction # NoValue
              THEN Follow(a, arctan2(-home_direction.value[2], -home_direction.value[1]),
                          QMul(a.max_velocity, <<4, 5>>))
              ELSE random_walk(a, turn_amount)
         [] a.state = "RETURNING" -> a
         [] a.state = "FOLLOWING_TRAIL" ->
              IF food_direction # NoValue
              THEN Follow(a, arctan2(food_direction.value[2], food_direction.value[1]),
                          a.max_velocity)
              ELSE random_walk(set_state(a, "SEARCHING"), turn_amount)
         [] OTHER -> a

\* no Ant object yet
NoAnts == [id \in {} |-> NoValue]

(***************************************************************************)
(* The main loop (main.py:66-214).  No key is pressed and the food sources *)
(* are in the first half of their expiration time, so that the food        *)
(* manager's update changes nothing.                                       *)
(***************************************************************************)

\* the main loop before a tick: the statement it is to run next, the ants of
\* the roster it has handled and has still to handle in the tick, the ticks
\* completed, the exception that ended the loop, and the food sources of the
\* food manager within the ants' reach; n_calls counts the calls made on the
\* ants from outside (it bounds the run)
NewMain ==
    [phase |-> "food", done |-> << >>, todo |-> << >>, n_ticks |-> 0,
     error |-> "None", food |-> << >>, n_calls |-> 0]

\* the order of the statements of a tick (main.py:110-118)
next_phase_colony_first(phase) ==
    CASE phase = "food" -> "colony"
      [] phase = "colony" -> "ground"
      [] phase = "ground" -> "ants"
      [] OTHER -> "food"

next_phase(phase) ==
    CASE phase = "food" -> "ground"
      [] phase = "ground" -> "colony"
      [] phase = "colony" -> "ants"
      [] OTHER -> "food"

\* the colony's position in main.py
colony_position == <<40000, 30000>>

\* the static food sources of main.py
food_sources ==
    << [pos |-> <<60000, 15000>>, radius |-> 2500],
       [pos |-> <<70000, 40000>>, radius |-> 2000],
       [pos |-> <<30000, 45000>>, radius |-> 3000] >>

\* the square of the distance between two positions
DistSq(p, q) == (p[1] - q[1]) * (p[1] - q[1]) + (p[2] - q[2]) * (p[2] - q[2])

\* the behaviour parameters of the queen controls, written into the ant
apply_behavior_params(a) ==
    [a EXCEPT !.max_velocity = <<2, 1>>, !.acceleration = <<1, 2>>,
              !.turn_speed = 30, !.detection_radius = 2000]

\* the static food sources the ant stands on, in the order of the list
StaticFound(a) ==
    SelectSeq(food_sources, LAMBDA food : DistSq(a.position, food.pos) <= food.radius * food.radius)

\* FoodManager.get_food_in_range: the indexes of the available sources in range
get_food_in_range(food, position, range_radius) ==
    {k \in 1..Len(food) : /\ food[k].amount > 0
                          /\ DistSq(position, food[k].position) <= range_radius * range_radius}

\* min(nearby_food, key=distance_to)
closest_food(food, nearby, position) ==
    CHOOSE k \in nearby :
        \A j \in nearby :
            \/ DistSq(position, food[k].position) < DistSq(position, food[j].position)
            \/ DistSq(position, food[k].position) = DistSq(position, food[j].position) /\ k <= j

\* the food collision with the food manager: the ant and the food sources
food_collision(a, food) ==
    LET nearby == get_food_in_range(food, a.position, a.detection_radius)
        k == closest_food(food, nearby, a.position)
        collected == Min(500, food[k].amount)
        dx == food[k].position[1] - a.position[1]
        dy == food[k].position[2] - a.position[2]
    IN IF a.state # "SEARCHING" \/ a.carrying_food \/ nearby = {}
       THEN [ant |-> a, food |-> food]
       ELSE IF DistSq(a.position, food[k].position) < 1500 * 1500
       THEN [ant |-> [set_state(set_carrying_food(a, TRUE), "RETURNING")
                         EXCEPT !.food_amount = [value |-> collected],
                                !.food_source_position = [value |-> food[k].position]],
             food |-> [food EXCEPT ![k].amount = @ - collected]]
       ELSE [ant |-> IF dx # 0 \/ dy # 0 THEN orientation_setter(a, arctan2(dy, dx)) ELSE a,
             food |-> food]

\* Ant.deposit_pheromone as the main loop calls it: the field and the
\* exception.  A GroundSystem is called with nine positional arguments and
\* accepts five (ground.py:150-151).
deposit_pheromone(a, f, t) ==
    CASE a.pheromone_manager = "PheromoneManager" ->
            [field |-> add_pheromone(f,
                 [DefaultArgs EXCEPT !.strength = 4000, !.decay_rate = 50,
                                     !.radius_of_influence = 2500]
                 @@ [position |-> a.position, pheromone_type |-> "FOOD_TRAIL"], t),
             error |-> "None"]
      [] a.pheromone_manager = "GroundSystem" -> [field |-> f, error |-> "TypeError"]
      [] OTHER -> [field |-> f, error |-> "None"]

\* the behaviour of a RETURNING ant (main.py:183-196)
returning(a) ==
    LET dx == colony_position[1] - a.position[1]
        dy == colony_position[2] - a.position[2]
    IN IF dx # 0 \/ dy # 0 THEN Follow(a, arctan2(dy, dx), a.max_velocity) ELSE a

\* the body of the loop over the ants (main.py:118-214): the ant, the colony,
\* the field, the food sources and the exception after it
ant_update(a0, c, f, food, t, turn_amount) ==
    LET a == apply_behavior_params(a0)
        same == [ant |-> a, colony |-> c, field |-> f, food |-> food, error |-> "None"]
        found == StaticFound(a)
        fc == food_collision(a, food)
        b == fc.ant
        moved == returning(b)
        dep == deposit_pheromone(moved, f, t)
        food_direction == sense_pheromone_gradient(b, f, "FOOD_TRAIL", 6000)
    IN IF a.state = "SEARCHING" /\ ~a.carrying_food /\ found # << >>
       THEN [same EXCEPT !.ant = [set_state(set_carrying_food(a, TRUE), "RETURNING")
                                     EXCEPT !.food_source_position = [value |-> found[1].pos]]]
       ELSE IF /\ b.state = "RETURNING" /\ b.carrying_food
               /\ DistSq(colony_position, b.position) < 2000 * 2000
       THEN [same EXCEPT
               !.colony = receive_food(c, IF b.food_amount = NoValue THEN 500
                                          ELSE b.food_amount.value).c,
               !.food = fc.food,
               !.ant = IF b.food_source_position # NoValue
                       THEN [set_state(set_carrying_food(b, FALSE), "FOLLOWING_TRAIL")
                                EXCEPT !.return_to_food_source = TRUE]
                       ELSE set_state(set_carrying_food(b, FALSE), "SEARCHING")]
       ELSE IF b.state = "RETURNING"
       THEN [same EXCEPT !.ant = moved, !.food = fc.food,
                         !.field = dep.field, !.error = dep.error]
       ELSE IF b.state = "FOLLOWING_TRAIL" /\ b.return_to_food_source
       THEN [same EXCEPT !.food = fc.food,
               !.ant = IF food_direction # NoValue
                       THEN Follow(b, arctan2(food_direction.value[2], food_direction.value[1]),
                                   b.max_velocity)
                       ELSE step(set_state([b EXCEPT !.return_to_food_source = FALSE],
                                           "SEARCHING"), f, turn_amount)]
       ELSE [same EXCEPT !.food = fc.food, !.ant = step(b, f, turn_amount)]

\* eggs laid and ants constructed so far in the run
Individuals == (next_id - 1) + Len(colony.eggs) + Len(colony.pupae)

InitFresh ==
    /\ next_id = 1
    /\ now = 0
    /\ n_received = 0
    /\ field = NewField
    /\ ants = NoAnts
    /\ main = NewMain
    /\ \E mp \in 1..MaxPopArg :
           /\ colony = NewColony(mp)
           /\ call = Event("__init__", [max_population |-> mp], NoValue)

Init ==
    /\ next_id = 1
    /\ now = 0
    /\ n_received = 0
    /\ field = NewField
    /\ ants = NoAnts
    /\ main = NewMain
    /\ \E mp \in 1..MaxPopArg :
        \/ /\ colony = NewColony(mp)
           /\ call = Event("__init__", [max_population |-> mp], NoValue)
        \/ \E f \in RunDownFoods :
            /\ colony = RunDown(NewColony(mp), f)
            /\ call = Event("remove_ant", [ant |-> Ant(0, "NURSE")], NoValue)

\* time.time() moves on
TimePasses ==
    /\ now < MaxNow
    /\ now' = now + 1
    /\ call' = Event("time", [now |-> now + 1], NoValue)
    /\ UNCHANGED <<colony, next_id, n_received, field, ants, main>>

LayEgg(castes) ==
    \E caste \in castes :
        LET r == lay_egg(colony, caste) IN
        /\ r.ret => Individuals < MaxAnts
        /\ colony' = r.c
        /\ call' = Event("lay_egg", [caste |-> caste], [ok |-> r.ret])
        /\ UNCHANGED <<next_id, now, n_received, field, ants, main>>

SpawnAnt(castes) ==
    \E caste \in castes :
        LET r == spawn_ant(colony, caste, next_id, now) IN
        /\ r.ret # None => Individuals < MaxAnts
        /\ colony' = r.c
        /\ next_id' = IF r.ret # None THEN next_id + 1 ELSE next_id
        /\ call' = Event("spawn_ant", [caste |-> caste], [ant |-> r.ret])
        /\ UNCHANGED <<now, n_received, field, ants, main>>

SpawnMultipleAnts(castes) ==
    \E caste \in castes, count \in 1..MaxCount :
        LET r == spawn_multiple_ants(colony, caste, count, next_id, now) IN
        /\ Individuals + Len(r.ret) <= MaxAnts
        /\ colony' = r.c
        /\ next_id' = next_id + Len(r.ret)
        /\ call' = Event("spawn_multiple_ants", [caste |-> caste, count |-> count], [ants |-> r.ret])
        /\ UNCHANGED <<now, n_received, field, ants, main>>

ReceiveFood(amounts) ==
    \E amount \in amounts :
        LET r == receive_food(colony, amount) IN
        /\ n_received < MaxReceive
        /\ n_received' = n_received + 1
        /\ colony' = r.c
        /\ call' = Event("receive_food", [amount |-> amount], [amount |-> r.ret])
        /\ UNCHANGED <<next_id, now, field, ants, main>>

\* add_ant with an Ant the caller has just constructed, or with one of the roster
AddAnt(castes) ==
    \/ \E caste \in castes :
        /\ Individuals < MaxAnts
        /\ colony' = add_ant(colony, Ant(next_id, caste), now)
        /\ next_id' = next_id + 1
        /\ call' = Event("add_ant", [ant |-> Ant(next_id, caste)], NoValue)
        /\ UNCHANGED <<now, n_received, field, ants, main>>
    \/ \E ant \in RosterSet(colony) :
        /\ colony' = add_ant(colony, ant, now)
        /\ call' = Event("add_ant", [ant |-> ant], NoValue)
        /\ UNCHANGED <<next_id, now, n_received, field, ants, main>>

\* remove_ant with an Ant of the roster, or with one the colony does not hold
RemoveAnt ==
    \E ant \in {Stranger} \cup RosterSet(colony)
                \cup (IF call.op = "remove_ant" THEN {call.arg.ant} ELSE {}) :
        /\ colony' = remove_ant(colony, ant)
        /\ call' = Event("remove_ant", [ant |-> ant], NoValue)
        /\ UNCHANGED <<next_id, now, n_received, field, ants, main>>

Update ==
    LET r == update(colony, next_id, now) IN
    /\ colony.current_tick < MaxTick
    /\ Len(QueenStep(colony).eggs) > Len(colony.eggs) => Individuals < MaxAnts
    /\ colony' = r
    /\ next_id' = next_id + (r.total_ants_spawned - colony.total_ants_spawned)
    /\ call' = Event("update", NoValue, NoValue)
    /\ UNCHANGED <<now, n_received, field, ants, main>>

\* QueenControls._produce_ants with the text of the input field: empty, or
\* the digits of a number
ProduceAnts(castes) ==
    \E caste \in castes, text \in {NoValue} \cup {[value |-> n] : n \in 0..MaxCount} :
        \E count \in {Max(1, Min(IF text = NoValue THEN 1 ELSE text.value, 50))} :
            \E r \in {IF can_spawn_caste(colony, caste, count)
                       THEN spawn_multiple_ants(colony, caste, count, next_id, now)
                       ELSE [c |-> colony, ret |-> << >>]} :
                /\ Individuals + Len(r.ret) <= MaxAnts
                /\ colony' = r.c
                /\ next_id' = next_id + Len(r.ret)
                /\ call' = Event("_produce_ants", [caste |-> caste, count |-> count],
                                 [ants |-> r.ret])
                /\ UNCHANGED <<now, n_received, field, ants, main>>

\* Production: food arrives, ants are spawned in numbers, by the queen's
\* controls too, and removed.
NextProduce ==
    \/ ReceiveFood(Amounts)
    \/ SpawnMultipleAnts({"WORKER", "SOLDIER"})
    \/ ProduceAnts({"SOLDIER"})
    \/ RemoveAnt

SpecProduce == Init /\ [][NextProduce]_vars

\* Every operation of the colony, the roster managed by hand included.
Next ==
    \/ TimePasses
    \/ LayEgg({"SOLDIER"})
    \/ SpawnAnt({"WORKER", "SOLDIER"})
    \/ SpawnMultipleAnts({"WORKER"})
    \/ AddAnt({"WORKER", "SOLDIER"})
    \/ RemoveAnt
    \/ Update

Spec == InitFresh /\ [][Next]_vars

\* The queen alone: eggs are laid and hatch, food arrives, nothing is spawned
\* or added by hand.
NextLay ==
    \/ TimePasses
    \/ LayEgg({"WORKER", "SOLDIER"})
    \/ ReceiveFood({2 * INITIAL_MAX_FOOD})
    \/ Update

SpecLay == Init /\ [][NextLay]_vars

\* The food economy: food arrives, is spent on spawning and eaten.
NextFood ==
    \/ ReceiveFood(Amounts)
    \/ SpawnAnt(AntCaste)
    \/ SpawnMultipleAnts({"SOLDIER"})
    \/ Update

SpecFood == Init /\ [][NextFood]_vars

\* A colony that receives no food: ants are spawned, added and removed, time
\* passes and the colony is updated.
NextStarve ==
    \/ TimePasses
    \/ SpawnAnt({"WORKER"})
    \/ AddAnt({"WORKER"})
    \/ RemoveAnt
    \/ Update

SpecStarve == Init /\ [][NextStarve]_vars

(***************************************************************************)
(* The pheromone field as a state machine.                                 *)
(***************************************************************************)

InitField ==
    /\ colony = NewColony(1)
    /\ next_id = 1
    /\ now = 0
    /\ n_received = 0
    /\ field = NewField
    /\ ants = NoAnts
    /\ main = NewMain
    /\ call = Event("PheromoneManager", [world_bounds |-> NewField.world_bounds], NoValue)

\* arguments of a deposit: the defaults, with the given values
Args(position, pheromone_type, strength, decay_rate, radius_of_influence, can_spread, spread_delay) ==
    [DefaultArgs EXCEPT !.strength = strength,
                        !.decay_rate = decay_rate,
                        !.radius_of_influence = radius_of_influence,
                        !.can_spread = can_spread,
                        !.spread_delay = spread_delay]
    @@ [position |-> position, pheromone_type |-> pheromone_type]

\* deposits with negative and positive strength, decay rate and radius
FieldArgs ==
    {Args(<<10000, 10000>>, "FOOD_TRAIL", s, d, r, FALSE, 2) :
        s \in {-500, 300}, d \in {-100, 100}, r \in {-1000, 2000}}

\* PheromoneManager.add_pheromone called from outside (Ant.deposit_pheromone)
Deposit(argset) ==
    \E a \in argset :
        /\ field.n_deposited < MaxDeposits
        /\ field' = [add_pheromone(field, a, now) EXCEPT !.n_deposited = @ + 1]
        /\ call' = Event("add_pheromone", [args |-> a],
                         [pheromone |-> Pheromone(field.next_pid, a, now)])
        /\ UNCHANGED <<colony, next_id, now, n_received, ants, main>>

\* GroundSystem.add_pheromone
GroundDeposit(argset) ==
    \E a \in argset :
        /\ field.n_deposited < MaxDeposits
        /\ field' = [GroundCell_add_pheromone(field, a, now) EXCEPT !.n_deposited = @ + 1]
        /\ call' = Event("GroundSystem.add_pheromone", [args |-> a], NoValue)
        /\ UNCHANGED <<colony, next_id, now, n_received, ants, main>>

\* Pheromone.reinforce on a pheromone of the field
Reinforce(amounts) ==
    \E k \in 1..Len(field.pheromones), additional_strength \in amounts :
        /\ field' = [field EXCEPT !.pheromones[k] = reinforce(@, additional_strength)]
        /\ call' = Event("reinforce",
                         [id |-> field.pheromones[k].id,
                          additional_strength |-> additional_strength], NoValue)
        /\ UNCHANGED <<colony, next_id, now, n_received, ants, main>>

UpdateAll ==
    /\ field.n_updates < MaxFieldTick
    /\ field' = [update_all(field, now) EXCEPT !.n_updates = @ + 1]
    /\ call' = Event("update_all", NoValue, NoValue)
    /\ UNCHANGED <<colony, next_id, now, n_received, ants, main>>

\* GroundCell.update with one of the multipliers the ground can have
GroundCellUpdate(multipliers, delta_times) ==
    \E m \in multipliers, delta_time \in delta_times :
        /\ field.n_updates < MaxFieldTick
        /\ field' = [GroundCell_update(field, m, delta_time) EXCEPT !.n_updates = @ + 1]
        /\ call' = Event("GroundCell.update",
                         [multiplier |-> m, delta_time |-> delta_time], NoValue)
        /\ UNCHANGED <<colony, next_id, now, n_received, ants, main>>

\* Decay and reinforcement: pheromones are deposited with any arguments,
\* reinforced and decayed by the manager and by the ground.
NextField ==
    \/ Deposit(FieldArgs)
    \/ GroundDeposit(FieldArgs)
    \/ Reinforce({50, 1000})
    \/ UpdateAll
    \/ GroundCellUpdate({<<4, 5>>, <<1, 1>>}, {1, 2})

SpecField == InitField /\ [][NextField]_vars

\* deposits that spread or not, at once or after a delay, in a corner of the
\* world and in its middle, strong enough to outlive the delay or not
SpreadingArgs ==
    {Args(pos, "FOOD_TRAIL", s, 100, 2000, TRUE, delay) :
        pos \in {<<1000, 1000>>, <<40000, 30000>>}, s \in {100, 500}, delay \in {0, 1}}
    \cup {Args(<<40000, 30000>>, "FOOD_TRAIL", 500, 100, 2000, FALSE, 0)}

\* Spreading: pheromones are deposited, time passes, the field is updated.
NextSpread ==
    \/ TimePasses
    \/ Deposit(SpreadingArgs)
    \/ UpdateAll

SpecSpread == InitField /\ [][NextSpread]_vars

\* PheromoneManager.get_pheromone_direction, called from outside
GetPheromoneDirection(positions, types, radii) ==
    \E position \in positions, pheromone_type \in types, radius \in radii :
        /\ call' = Event("get_pheromone_direction",
                         [position |-> position, pheromone_type |-> pheromone_type,
                          radius |-> radius],
                         get_pheromone_direction(field, position, pheromone_type, radius))
        /\ UNCHANGED <<colony, next_id, now, n_received, field, ants, main>>

\* deposits of two types on one horizontal line, none of which spreads
SenseArgs ==
    {Args(<<x, 10000>>, t, s, 100, 2000, FALSE, 2) :
        x \in {10000, 12000}, t \in {"FOOD_TRAIL", "HOME_TRAIL"}, s \in {100, 500}}

\* Sensing: pheromones are deposited and decay, and the gradient is queried
\* at positions on their line.
NextSense ==
    \/ Deposit(SenseArgs)
    \/ UpdateAll
    \/ GetPheromoneDirection({<<x, 10000>> : x \in {10000, 11000, 13000}},
                             {"FOOD_TRAIL", "HOME_TRAIL"}, {500, 5000})

SpecSense == InitField /\ [][NextSense]_vars

\* a Pheromone object built outside the manager and never added to it
StrangerPheromone == Pheromone(0, Args(<<1000, 1000>>, "FOOD_TRAIL", 100, 100, 2000, FALSE, 2), 0)

\* PheromoneManager.remove_pheromone, called from outside with a pheromone of
\* the field, the pheromone of the previous removal, or a stranger
RemovePheromone ==
    \E pheromone \in {field.pheromones[k] : k \in 1..Len(field.pheromones)}
                     \cup {StrangerPheromone}
                     \cup (IF call.op = "remove_pheromone" THEN {call.arg.pheromone} ELSE {}) :
        /\ field.n_removals < MaxRemove
        /\ field' = [remove_pheromone(field, pheromone) EXCEPT !.n_removals = @ + 1]
        /\ call' = Event("remove_pheromone", [pheromone |-> pheromone], NoValue)
        /\ UNCHANGED <<colony, next_id, now, n_received, ants, main>>

\* PheromoneManager.clear_all
ClearAll ==
    /\ field.n_removals < MaxRemove
    /\ field' = [clear_all(field) EXCEPT !.n_removals = @ + 1]
    /\ call' = Event("clear_all", NoValue, NoValue)
    /\ UNCHANGED <<colony, next_id, now, n_received, ants, main>>

\* deposits in two cells of the grid, two of them in the same cell; those in
\* the corner of the world may spread, in the next update_all
GridArgs ==
    {Args(<<1000, 1000>>, "FOOD_TRAIL", s, 100, 2000, cs, 0) : s \in {100, 200}, cs \in BOOLEAN}
    \cup {Args(pos, "FOOD_TRAIL", 200, 100, 2000, FALSE, 0) :
              pos \in {<<2000, 1000>>, <<40000, 30000>>}}

\* Indexing: pheromones are deposited, decay and spread, are removed one by
\* one and all at once.
NextGrid ==
    \/ Deposit(GridArgs)
    \/ UpdateAll
    \/ RemovePheromone
    \/ ClearAll

SpecGrid == InitField /\ [][NextGrid]_vars

\* two deposits that do not spread, in one cell of the grid
RemovalArgs ==
    {Args(<<x, 1000>>, "FOOD_TRAIL", 200, 100, 2000, FALSE, 2) : x \in {1000, 2000}}

\* Removal: ants and pheromones are added and removed from outside, tracked
\* or not.
NextRemoval ==
    \/ AddAnt({"WORKER", "SCOUT"})
    \/ RemoveAnt
    \/ Deposit(RemovalArgs)
    \/ UpdateAll
    \/ RemovePheromone

SpecRemoval == InitFresh /\ [][NextRemoval]_vars

\* deposits in the corner of the world with strength 0, 1.00 and 1.50 and
\* decay rate 1.00; those that may spread do so in the next update_all
DecayArgs ==
    {Args(<<1000, 1000>>, "FOOD_TRAIL", s, 100, 2000, cs, 0) :
        s \in {0, 100, 150}, cs \in BOOLEAN}

\* Decay: pheromones are deposited and the field is updated.
NextDecay ==
    \/ Deposit(DecayArgs)
    \/ UpdateAll

SpecDecay == InitField /\ [][NextDecay]_vars

(***************************************************************************)
(* One ant, driven from outside through its methods.                       *)
(***************************************************************************)

\* an ant as Colony.spawn_ant makes it (colony.py:204-212), at one of the
\* positions, with a heading in [0, 360)
InitAnt ==
    /\ colony = NewColony(1)
    /\ next_id = 2
    /\ now = 0
    /\ n_received = 0
    /\ field = NewField
    /\ main = NewMain
    /\ \E position \in {<<50, 30000>>, <<40000, 30000>>}, orientation \in {0, 1800},
          caste \in {"WORKER", "SCOUT"} :
          /\ ants = [id \in {1} |->
                        set_pheromone_manager(
                            set_state(NewAnt(position, orientation, caste), "SEARCHING"),
                            "PheromoneManager")]
          /\ call = Event("Ant", [position |-> position, orientation |-> orientation,
                                  caste |-> caste], NoValue)

\* a call of a method of an ant: the ant becomes what the method makes it
AntCall(id, op, arg, after) ==
    /\ main.n_calls < MaxAntCalls
    /\ ants' = [ants EXCEPT ![id] = after]
    /\ main' = [main EXCEPT !.n_calls = @ + 1]
    /\ call' = Event(op, [id |-> id, value |-> arg], NoValue)
    /\ UNCHANGED <<colony, next_id, now, n_received, field>>

SetOrientation(values) ==
    \E id \in DOMAIN ants, orientation \in values :
        AntCall(id, "set_orientation", orientation, set_orientation(ants[id], orientation))

OrientationSetter(values) ==
    \E id \in DOMAIN ants, value \in values :
        AntCall(id, "orientation", value, orientation_setter(ants[id], value))

TurnTowards(angles) ==
    \E id \in DOMAIN ants, target_angle \in angles :
        AntCall(id, "turn_towards", target_angle, turn_towards(ants[id], target_angle))

Accelerate(targets) ==
    \E id \in DOMAIN ants, target_velocity \in targets :
        AntCall(id, "accelerate", target_velocity, accelerate(ants[id], target_velocity))

Move(step_sizes) ==
    \E id \in DOMAIN ants, step_size \in step_sizes :
        AntCall(id, "move", step_size, move(ants[id], step_size))

SetCarryingFood ==
    \E id \in DOMAIN ants, carrying \in BOOLEAN :
        AntCall(id, "set_carrying_food", carrying, set_carrying_food(ants[id], carrying))

\* the turns random_walk may draw: none, or an angle of -30..30 degrees
Turns == {NoValue, [value |-> -300], [value |-> 70]}

RandomWalk ==
    \E id \in DOMAIN ants, turn_amount \in Turns :
        AntCall(id, "random_walk", turn_amount, random_walk(ants[id], turn_amount))

Step ==
    \E id \in DOMAIN ants, turn_amount \in Turns :
        AntCall(id, "step", turn_amount, step(ants[id], field, turn_amount))

\* Colony.reset_ants_to_nest: every ant of the roster is put near the nest,
\* at an offset drawn within half the colony's radius (30)
reset_ants_to_nest(as, ids, offset) ==
    [id \in DOMAIN as |->
        IF id \in ids
        THEN set_world_bounds(
                 set_carrying_food(
                     set_state([as[id] EXCEPT !.position =
                                    <<colony_position[1] + offset[1],
                                      colony_position[2] + offset[2]>>],
                               "SEARCHING"),
                     FALSE),
                 <<0, 0, 80000, 60000>>)
        ELSE as[id]]

ResetAntsToNest ==
    \E offset \in {<<-1500, 0>>, <<700, 1500>>} :
        /\ main.n_calls < MaxAntCalls
        /\ ants' = reset_ants_to_nest(ants, DOMAIN ants, offset)
        /\ main' = [main EXCEPT !.n_calls = @ + 1]
        /\ call' = Event("reset_ants_to_nest", [offset |-> offset], NoValue)
        /\ UNCHANGED <<colony, next_id, now, n_received, field>>

\* Heading: the calls that change an ant's heading and move it.
NextHeading ==
    \/ SetOrientation({-900, 4000})
    \/ OrientationSetter({450, 3700})
    \/ TurnTowards({-20, 900})
    \/ Move({<<1, 1>>, <<900, 1>>})
    \/ RandomWalk
    \/ Step

SpecHeading == InitAnt /\ [][NextHeading]_vars

\* Speed: the calls that change an ant's velocity and its maximum.
NextSpeed ==
    \/ Accelerate({<<0, 1>>, <<1, 1>>})
    \/ SetCarryingFood
    \/ RandomWalk
    \/ Step
    \/ ResetAntsToNest

SpecSpeed == InitAnt /\ [][NextSpeed]_vars

\* deposits around the ant in the middle of the world: 10 to its right, 40 to
\* its right (further than their radius of influence 20), at its position,
\* and 10 above it
FollowArgs ==
    {Args(pos, t, 5000, 100, 2000, FALSE, 2) :
        pos \in {<<41000, 30000>>, <<44000, 30000>>, <<40000, 30000>>, <<40000, 29000>>},
        t \in {"FOOD_TRAIL", "HOME_TRAIL"}}

\* Following: pheromones are deposited around a searching ant, which steps.
NextFollow ==
    \/ Deposit(FollowArgs)
    \/ Step

SpecFollow == InitAnt /\ [][NextFollow]_vars

(***************************************************************************)
(* The main loop, a tick at a time.                                        *)
(***************************************************************************)

\* the food sources the food manager has generated near the nest
FoodChoices ==
    { << >>,
      << [position |-> <<41000, 30000>>, amount |-> 300] >>,
      << [position |-> <<41000, 30000>>, amount |-> 10000] >> }

\* the loop about to run a tick, with one ant of the roster out searching:
\* at the edge of the third static food source, or near the nest
InitMain ==
    /\ colony = _spawn_adult_ant(NewColony(MaxAnts), "WORKER", 1, 0)
    /\ next_id = 2
    /\ now = 0
    /\ n_received = 0
    /\ field = NewField
    /\ \E food \in FoodChoices, position \in {<<30000, 48000>>, <<40500, 30000>>, <<42500, 30000>>} :
          /\ main = [NewMain EXCEPT !.food = food]
          /\ ants = [id \in {1} |->
                        set_pheromone_manager(
                            set_state(NewAnt(position, 2700, "WORKER"), "SEARCHING"),
                            "GroundSystem")]
          /\ call = Event("main", [position |-> position, food |-> food], NoValue)

\* the loop moves on to its next statement; a tick without ants ends at once
advance(m) ==
    IF next_phase(m.phase) = "ants" /\ m.todo = << >>
    THEN [m EXCEPT !.phase = next_phase("ants"), !.n_ticks = @ + 1]
    ELSE [m EXCEPT !.phase = next_phase(m.phase)]

\* food_manager.update_all(delta_time) (main.py:110)
MainFood ==
    /\ main.phase = "food" /\ main.error = "None"
    /\ colony.current_tick < MaxTick
    /\ main' = advance(main)
    /\ call' = Event("food_manager.update_all", NoValue, NoValue)
    /\ UNCHANGED <<colony, next_id, now, n_received, field, ants>>

\* ground_system.update_all(delta_time) (main.py:111)
MainGround ==
    /\ main.phase = "ground" /\ main.error = "None"
    /\ field' = [GroundCell_update(field, <<1, 1>>, 1) EXCEPT !.n_updates = @ + 1]
    /\ main' = advance(main)
    /\ call' = Event("ground_system.update_all", NoValue, NoValue)
    /\ UNCHANGED <<colony, next_id, now, n_received, ants>>

\* the Ant objects _spawn_adult_ant constructs for the ants new in the roster
\* (colony.py:122-128), at an offset within half the colony's radius
NewBodies(as, c, offset, orientation) ==
    LET new == {c.ants[i].id : i \in 1..Len(c.ants)} \ DOMAIN as IN
    [id \in DOMAIN as \cup new |->
        IF id \in DOMAIN as THEN as[id]
        ELSE set_pheromone_manager(
                 set_state(NewAnt(<<colony_position[1] + offset[1],
                                    colony_position[2] + offset[2]>>,
                                  orientation,
                                  c.ants[CHOOSE i \in 1..Len(c.ants) : c.ants[i].id = id].caste),
                           "SEARCHING"),
                 "GroundSystem")]

\* colony.update() and the copy of the roster the loop over the ants takes
\* (main.py:112, 118)
MainColony ==
    LET r == update(colony, next_id, now) IN
    /\ main.phase = "colony" /\ main.error = "None"
    /\ Len(QueenStep(colony).eggs) > Len(colony.eggs) => Individuals < MaxAnts
    /\ colony' = r
    /\ next_id' = next_id + (r.total_ants_spawned - colony.total_ants_spawned)
    /\ \E offset \in {<<-1500, 0>>, <<700, 1500>>}, orientation \in {0, 1800} :
           ants' = NewBodies(ants, r, offset, orientation)
    /\ main' = advance([main EXCEPT !.done = << >>, !.todo = Ids(r.ants)])
    /\ call' = Event("colony.update", NoValue, NoValue)
    /\ UNCHANGED <<now, n_received, field>>

\* one pass of the loop over the ants (main.py:118-214); an exception ends
\* the main loop
MainAnt ==
    /\ main.phase = "ants" /\ main.error = "None"
    /\ main.todo # << >>
    /\ \E turn_amount \in Turns, id \in {Head(main.todo)} :
         \E r \in {ant_update(ants[id], colony, field, main.food, now, turn_amount)} :
           \E m \in {[main EXCEPT !.food = r.food, !.error = r.error,
                                  !.done = Append(@, id), !.todo = Tail(@)]} :
              /\ ants' = [ants EXCEPT ![id] = r.ant]
              /\ colony' = r.colony
              /\ field' = r.field
              /\ main' = IF r.error = "None" /\ m.todo = << >>
                         THEN [m EXCEPT !.phase = next_phase("ants"), !.n_ticks = @ + 1]
                         ELSE m
              /\ call' = Event("ant_update", [id |-> id, turn_amount |-> turn_amount],
                               [error |-> r.error])
              /\ UNCHANGED <<next_id, now, n_received>>

NextMain ==
    \/ MainFood
    \/ MainGround
    \/ MainColony
    \/ MainAnt

SpecMain == InitMain /\ [][NextMain]_vars

\* Pheromone.update called on a pheromone of the field, as the tests call it
\* (test_pheromone_system.py:53): the pheromone stays where it is
PheromoneUpdate ==
    \E k \in 1..Len(field.pheromones) :
        /\ field.pheromones[k].strength > 0
        /\ field' = [field EXCEPT !.pheromones[k] = Pheromone_update(@)]
        /\ call' = Event("Pheromone.update", [id |-> field.pheromones[k].id],
                         [remove |-> Pheromone_update(field.pheromones[k]).strength <= 0])
        /\ UNCHANGED <<colony, next_id, now, n_received, ants, main>>

\* deposits of the default radius of influence that take one, two or four
\* updates to decay
RadiusArgs ==
    {Args(pos, "FOOD_TRAIL", s, 50, DefaultArgs.radius_of_influence, FALSE, 0) :
        pos \in {<<10000, 10000>>, <<40000, 30000>>}, s \in {50, 100, 200}}

\* Radius: pheromones are deposited, decayed one by one, reinforced and
\* updated by the manager.
NextRadius ==
    \/ Deposit(RadiusArgs)
    \/ PheromoneUpdate
    \/ Reinforce({50})
    \/ UpdateAll

SpecRadius == InitField /\ [][NextRadius]_vars

(***************************************************************************)
(* The ground system (ground.py).  all_pheromones holds the pheromone      *)
(* objects; ground_grid lists what the cells hold, one entry               *)
(* [cell_key, id] for each pheromone in a cell's list, in the order of     *)
(* the deposits (a cell's list is the entries of its key).                 *)
(***************************************************************************)

\* int(x / y) for y > 0: the quotient cut towards zero
IntDiv(x, y) == IF x >= 0 THEN x \div y ELSE -((-x) \div y)

\* GroundSystem.__init__; n_deposited and n_updates count the calls made
GroundSystem(world_bounds, cell_size) ==
    [ world_bounds |-> world_bounds,
      cell_size |-> cell_size,
      grid_width |-> IntDiv(world_bounds[3] - world_bounds[1], cell_size) + 1,
      grid_height |-> IntDiv(world_bounds[4] - world_bounds[2], cell_size) + 1,
      ground_grid |-> << >>,
      all_pheromones |-> << >>,
      next_pid |-> 1,
      n_deposited |-> 0,
      n_updates |-> 0 ]

\* GroundSystem._get_cell_key
GroundSystem_get_cell_key(g, position) ==
    <<IntDiv(position[1] - g.world_bounds[1], g.cell_size),
      IntDiv(position[2] - g.world_bounds[2], g.cell_size)>>

\* cell_key in self.ground_grid: the keys _initialize_ground_grid made
InGroundGrid(g, cell_key) ==
    /\ cell_key[1] \in 0..(g.grid_width - 1)
    /\ cell_key[2] \in 0..(g.grid_height - 1)

\* GroundSystem.add_pheromone
GroundSystem_add_pheromone(g, a, t) ==
    LET pheromone == Pheromone(g.next_pid,
                         [DefaultArgs EXCEPT !.strength = a.strength,
                                             !.decay_rate = a.decay_rate,
                                             !.radius_of_influence = a.radius_of_influence]
                         @@ [position |-> a.position, pheromone_type |-> a.pheromone_type], t)
        cell_key == GroundSystem_get_cell_key(g, a.position)
    IN [g EXCEPT !.ground_grid = IF InGroundGrid(g, cell_key)
                                 THEN Append(@, [cell_key |-> cell_key, id |-> pheromone.id])
                                 ELSE @,
                 !.all_pheromones = Append(@, pheromone),
                 !.next_pid = @ + 1]

\* the cells whose list holds the pheromone
CellsHolding(g, pheromone) ==
    {g.ground_grid[k].cell_key : k \in {j \in 1..Len(g.ground_grid) :
                                            g.ground_grid[j].id = pheromone.id}}

\* GroundSystem.get_pheromones_in_range: the pheromones, within the radius,
\* of the cells of the grid at most cells_needed from the centre cell
GroundSystem_get_pheromones_in_range(g, position, radius, pheromone_type) ==
    LET center_cell == GroundSystem_get_cell_key(g, position)
        cells_needed == IntDiv(radius, g.cell_size) + 2
        Near(cell_key) == /\ InGroundGrid(g, cell_key)
                          /\ cell_key[1] - center_cell[1] \in -cells_needed..cells_needed
                          /\ cell_key[2] - center_cell[2] \in -cells_needed..cells_needed
    IN SelectSeq(g.all_pheromones,
                 LAMBDA p : /\ \E cell_key \in CellsHolding(g, p) : Near(cell_key)
                            /\ pheromone_type # NoValue => p.type = pheromone_type.value
                            /\ distance_to(p, position) <= radius)

\* GroundSystem.get_pheromone_direction: the value returned and the
\* exception raised.  The loop reads pheromone.trail_quality (ground.py:226)
\* of the first pheromone at a distance > 0, an attribute Pheromone.__init__
\* (pheromone.py:17-35) does not set, before it marks any usage.
GroundSystem_get_pheromone_direction(g, position, pheromone_type, radius) ==
    LET nearby_pheromones ==
            GroundSystem_get_pheromones_in_range(g, position, radius,
                                                 [value |-> pheromone_type])
        used == SelectSeq(nearby_pheromones, LAMBDA p : distance_to(p, position) # 0)
    IN IF used # << >> /\ "trail_quality" \notin DOMAIN Head(used)
       THEN [value |-> NoValue, error |-> "AttributeError", ground |-> g]
       ELSE [value |-> NoValue, error |-> "None", ground |-> g]

\* GroundSystem.get_total_strength: pheromone.trail_quality is read
\* (ground.py:264) for the first pheromone in range
GroundSystem_get_total_strength(g, position, pheromone_type, radius) ==
    LET nearby_pheromones ==
            GroundSystem_get_pheromones_in_range(g, position, radius,
                                                 [value |-> pheromone_type])
    IN IF nearby_pheromones # << >> /\ "trail_quality" \notin DOMAIN Head(nearby_pheromones)
       THEN [value |-> NoValue, error |-> "AttributeError", ground |-> g]
       ELSE [value |-> [value |-> 0], error |-> "None", ground |-> g]

\* GroundSystem.update_all: GroundCell.update decays the pheromones the
\* cells hold, with the multiplier the ground's properties give, and the
\* depleted ones are removed from the cells and from all_pheromones
GroundSystem_update_all(g, ground_decay_multiplier, delta_time) ==
    LET decayed == [k \in 1..Len(g.all_pheromones) |->
                        IF CellsHolding(g, g.all_pheromones[k]) # {}
                        THEN [g.all_pheromones[k] EXCEPT !.strength =
                                 @ - Frac(g.all_pheromones[k].decay_rate,
                                          ground_decay_multiplier) * delta_time]
                        ELSE g.all_pheromones[k]]
        depleted == {decayed[k].id : k \in {j \in 1..Len(decayed) : decayed[j].strength <= 0}}
    IN [g EXCEPT !.ground_grid = SelectSeq(@, LAMBDA e : e.id \notin depleted),
                 !.all_pheromones = SelectSeq(decayed, LAMBDA p : p.id \notin depleted)]

(***************************************************************************)
(* The ground system as a state machine: field is the GroundSystem of      *)
(* main.py:34, and one ant is attached to it (Colony.set_pheromone_manager *)
(* gives every ant the colony's manager, main.py:39).                      *)
(***************************************************************************)

InitGround ==
    /\ colony = NewColony(1)
    /\ next_id = 2
    /\ now = 0
    /\ n_received = 0
    /\ field = GroundSystem(<<0, 0, 120000, 80000>>, 1500)
    /\ ants = [id \in {1} |->
                  set_pheromone_manager(
                      set_state(NewAnt(<<40000, 30000>>, 0, "WORKER"), "SEARCHING"),
                      "GroundSystem")]
    /\ main = NewMain
    /\ call = Event("GroundSystem", [world_bounds |-> <<0, 0, 120000, 80000>>,
                                     cell_size |-> 1500], NoValue)

\* deposits inside the world, left of it and right of it
GroundArgs ==
    {Args(pos, "FOOD_TRAIL", s, 100, 2000, FALSE, 0) :
        pos \in {<<40000, 30000>>, <<42000, 30000>>, <<-500, 30000>>, <<125000, 30000>>},
        s \in {100, 200}}

\* the positions queried
GroundPositions == {<<40000, 30000>>, <<0, 30000>>, <<125000, 30000>>}

\* GroundSystem.add_pheromone called from outside
GroundSystemAddPheromone(argset) ==
    \E a \in argset :
        /\ field.n_deposited < MaxDeposits
        /\ field' = [GroundSystem_add_pheromone(field, a, now) EXCEPT !.n_deposited = @ + 1]
        /\ call' = Event("GroundSystem.add_pheromone", [args |-> a],
                         [id |-> field.next_pid, error |-> "None"])
        /\ UNCHANGED <<colony, next_id, now, n_received, ants, main>>

\* GroundSystem.get_pheromones_in_range called from outside
GroundSystemGetPheromonesInRange(positions, radii) ==
    \E position \in positions, radius \in radii :
        /\ call' = Event("GroundSystem.get_pheromones_in_range",
                         [position |-> position, radius |-> radius],
                         [ids |-> Ids(GroundSystem_get_pheromones_in_range(
                                          field, position, radius, NoValue)),
                          error |-> "None"])
        /\ UNCHANGED <<colony, next_id, now, n_received, field, ants, main>>

\* GroundSystem.get_pheromone_direction called from outside
GroundSystemGetPheromoneDirection(positions, radii) ==
    \E position \in positions, radius \in radii :
        \E r \in {GroundSystem_get_pheromone_direction(field, position, "FOOD_TRAIL", radius)} :
            /\ field' = r.ground
            /\ call' = Event("GroundSystem.get_pheromone_direction",
                             [position |-> position, radius |-> radius],
                             [value |-> r.value, error |-> r.error])
            /\ UNCHANGED <<colony, next_id, now, n_received, ants, main>>

\* GroundSystem.get_total_strength called from outside
GroundSystemGetTotalStrength(positions, radii) ==
    \E position \in positions, radius \in radii :
        \E r \in {GroundSystem_get_total_strength(field, position, "FOOD_TRAIL", radius)} :
            /\ field' = r.ground
            /\ call' = Event("GroundSystem.get_total_strength",
                             [position |-> position, radius |-> radius],
                             [value |-> r.value, error |-> r.error])
            /\ UNCHANGED <<colony, next_id, now, n_received, ants, main>>

\* GroundSystem.update_all (main.py:111), the cells having one of the
\* multipliers the ground's properties give
GroundSystemUpdateAll(multipliers) ==
    \E m \in multipliers :
        /\ field.n_updates < MaxFieldTick
        /\ field' = [GroundSystem_update_all(field, m, 1) EXCEPT !.n_updates = @ + 1]
        /\ call' = Event("GroundSystem.update_all", [multiplier |-> m],
                         [error |-> "None"])
        /\ UNCHANGED <<colony, next_id, now, n_received, ants, main>>

\* Ant.deposit_pheromone of the ant attached to the ground system
AntDepositPheromone ==
    \E id \in DOMAIN ants :
        \E r \in {deposit_pheromone(ants[id], field, now)} :
            /\ field' = r.field
            /\ call' = Event("Ant.deposit_pheromone", [id |-> id], [error |-> r.error])
            /\ UNCHANGED <<colony, next_id, now, n_received, ants, main>>

\* Ant.sense_pheromone_gradient of the ant attached to the ground system
AntSensePheromoneGradient(radii) ==
    \E id \in DOMAIN ants, radius \in radii :
        \E r \in {GroundSystem_get_pheromone_direction(field, ants[id].position,
                                                       "FOOD_TRAIL", radius)} :
            /\ field' = r.ground
            /\ call' = Event("Ant.sense_pheromone_gradient", [id |-> id, radius |-> radius],
                             [value |-> r.value, error |-> r.error])
            /\ UNCHANGED <<colony, next_id, now, n_received, ants, main>>

\* The ground system: deposits, queries and updates from outside and from
\* the ant attached to it.
NextGround ==
    \/ GroundSystemAddPheromone(GroundArgs)
    \/ GroundSystemGetPheromonesInRange(GroundPositions, {1000, 6000})
    \/ GroundSystemGetPheromoneDirection(GroundPositions, {6000})
    \/ GroundSystemGetTotalStrength(GroundPositions, {6000})
    \/ GroundSystemUpdateAll({<<4, 5>>, <<1, 1>>})
    \/ AntDepositPheromone
    \/ AntSensePheromoneGradient({6000})

SpecGround == InitGround /\ [][NextGround]_vars

\* Ant.set_state called from outside (the main loop, the colony)
SetState(states) ==
    \E id \in DOMAIN ants, new_state \in states :
        AntCall(id, "set_state", new_state, set_state(ants[id], new_state))

\* a food trail and a home trail ahead of the ant in the middle of the world
StepArgs ==
    {Args(<<41000, 30000>>, t, 5000, 100, 2000, FALSE, 2) : t \in {"FOOD_TRAIL", "HOME_TRAIL"}}

\* Behaviour: pheromones are deposited around an ant whose state is set from
\* outside and which steps.
NextStep ==
    \/ Deposit(StepArgs)
    \/ SetState({"IDLE", "RETURNING", "SEARCHING"})
    \/ Step

SpecStep == InitAnt /\ [][NextStep]_vars

(***************************************************************************)
(* The colony's world bounds (colony.py:75, 170-179).  main.world_bounds   *)
(* is Colony._world_bounds; the ants are created by spawn_ant, by hatching *)
(* and by the caller of add_ant, and they move.                            *)
(***************************************************************************)

InitBounds ==
    /\ colony = NewColony(MaxAnts)
    /\ next_id = 1
    /\ now = 0
    /\ n_received = 0
    /\ field = NewField
    /\ ants = NoAnts
    /\ main = [world_bounds |-> <<0, 0, 80000, 60000>>] @@ NewMain
    /\ call = Event("Colony", [max_population |-> MaxAnts], NoValue)

\* Colony.set_world_bounds
ColonySetWorldBounds(boundses) ==
    \E bounds \in boundses :
        /\ main' = [main EXCEPT !.world_bounds = bounds]
        /\ ants' = [id \in DOMAIN ants |->
                       IF \E i \in 1..Len(colony.ants) : colony.ants[i].id = id
                       THEN set_world_bounds(ants[id], bounds)
                       ELSE ants[id]]
        /\ call' = Event("Colony.set_world_bounds", [bounds |-> bounds], NoValue)
        /\ UNCHANGED <<colony, next_id, now, n_received, field>>

\* Colony.spawn_ant with the Ant object it constructs (colony.py:199-212)
SpawnAntBody(castes) ==
    \E caste \in castes, offset \in {<<700, 1500>>} :
        \E r \in {spawn_ant(colony, caste, next_id, now)} :
            /\ r.ret # None => Individuals < MaxAnts
            /\ colony' = r.c
            /\ next_id' = IF r.ret # None THEN next_id + 1 ELSE next_id
            /\ ants' = IF r.ret = None THEN ants
                       ELSE [id \in DOMAIN ants \cup {next_id} |->
                                IF id \in DOMAIN ants THEN ants[id]
                                ELSE set_world_bounds(
                                         set_state(NewAnt(<<colony_position[1] + offset[1],
                                                            colony_position[2] + offset[2]>>,
                                                          0, caste),
                                                   "SEARCHING"),
                                         main.world_bounds)]
            /\ call' = Event("spawn_ant", [caste |-> caste], [ant |-> r.ret])
            /\ UNCHANGED <<now, n_received, field, main>>

\* Colony.update with the Ant objects _spawn_adult_ant constructs for the
\* pupae that hatch
UpdateBodies ==
    \E r \in {update(colony, next_id, now)} :
        /\ colony.current_tick < MaxTick
        /\ Len(QueenStep(colony).eggs) > Len(colony.eggs) => Individuals < MaxAnts
        /\ colony' = r
        /\ next_id' = next_id + (r.total_ants_spawned - colony.total_ants_spawned)
        /\ ants' = NewBodies(ants, r, <<700, 1500>>, 0)
        /\ call' = Event("update", NoValue, NoValue)
        /\ UNCHANGED <<now, n_received, field, main>>

\* Colony.add_ant with an Ant the caller has just constructed at the nest
AddAntBody(castes) ==
    \E caste \in castes :
        /\ Individuals < MaxAnts
        /\ colony' = add_ant(colony, Ant(next_id, caste), now)
        /\ next_id' = next_id + 1
        /\ ants' = [id \in DOMAIN ants \cup {next_id} |->
                       IF id \in DOMAIN ants THEN ants[id]
                       ELSE NewAnt(colony_position, 0, caste)]
        /\ call' = Event("add_ant", [ant |-> Ant(next_id, caste)], NoValue)
        /\ UNCHANGED <<now, n_received, field, main>>

\* World bounds: the bounds are set, ants are spawned, hatched and added,
\* and they move.
NextBounds ==
    \/ ColonySetWorldBounds({<<0, 0, 120000, 80000>>, <<0, 0, 40000, 30000>>})
    \/ SpawnAntBody({"WORKER"})
    \/ LayEgg({"WORKER"})
    \/ UpdateBodies
    \/ AddAntBody({"WORKER"})
    \/ Move({<<900, 1>>})

SpecBounds == InitBounds /\ [][NextBounds]_vars

(***************************************************************************)
(* A food source (food.py:5-246).  Times are in seconds, read from the     *)
(* clock now; amounts are integers.                                        *)
(***************************************************************************)

MaxFoodTime == 6

MaxFoodCalls == 6

\* FoodSource.__init__ at time t
FoodSource(amount, max_amount, depletion_rate, expiration_time, refresh_time, t) ==
    [ amount |-> Min(amount, max_amount),
      max_amount |-> max_amount,
      depletion_rate |-> depletion_rate,
      regeneration_rate |-> 0,
      regeneration_cooldown |-> 0,
      max_regeneration_cooldown |-> 300,
      is_depleted |-> FALSE,
      expiration_time |-> expiration_time,
      refresh_time |-> refresh_time,
      spawn_time |-> t,
      last_refresh_time |-> t,
      is_expired |-> FALSE,
      expiration_rate |-> 1 ]

\* FoodSource.is_available
is_available(s) == ~s.is_depleted /\ ~s.is_expired /\ s.amount > 0

\* FoodSource.collect_food: the source and the amount collected; amount is
\* [value |-> n], or NoValue for the depletion rate
collect_food(s, amount) ==
    LET wanted == IF amount = NoValue THEN s.depletion_rate ELSE amount.value
        actual_amount == Min(wanted, s.amount)
        left == s.amount - actual_amount
    IN IF s.is_depleted \/ s.is_expired THEN [source |-> s, ret |-> 0]
       ELSE [source |-> IF left <= 0
                        THEN [s EXCEPT !.amount = 0,
                                       !.is_depleted = TRUE,
                                       !.regeneration_cooldown = s.max_regeneration_cooldown]
                        ELSE [s EXCEPT !.amount = left],
             ret |-> actual_amount]

\* FoodSource.add_food
add_food(s, amount) ==
    [s EXCEPT !.is_depleted = FALSE,
              !.is_expired = FALSE,
              !.amount = @ + Min(amount, s.max_amount - s.amount)]

\* FoodSource.refresh_food at time t
refresh_food(s, t) ==
    [s EXCEPT !.amount = s.max_amount,
              !.is_depleted = FALSE,
              !.is_expired = FALSE,
              !.spawn_time = t,
              !.last_refresh_time = t,
              !.regeneration_cooldown = 0]

\* the expiration part of FoodSource.update (food.py:188-203)
Expire(s, delta_time, current_time) ==
    LET time_since_spawn == current_time - s.spawn_time
        time_remaining == s.expiration_time - time_since_spawn
        decayed == Max(0, s.amount - s.expiration_rate * delta_time)
    IN IF ~(~s.is_expired /\ is_available(s)) THEN s
       ELSE IF time_since_spawn >= s.expiration_time
       THEN [s EXCEPT !.is_expired = TRUE, !.last_refresh_time = current_time]
       ELSE IF 2 * time_remaining < s.expiration_time
       THEN IF decayed <= 0
            THEN [s EXCEPT !.amount = decayed, !.is_expired = TRUE,
                           !.last_refresh_time = current_time]
            ELSE [s EXCEPT !.amount = decayed]
       ELSE s

\* FoodSource.update at time current_time
FoodSource_update(s0, delta_time, current_time) ==
    LET s == Expire(s0, delta_time, current_time) IN
    IF (s.is_expired \/ s.is_depleted)
       /\ current_time - s.last_refresh_time >= s.refresh_time
    THEN refresh_food(s, current_time)
    ELSE IF s.regeneration_cooldown > 0
    THEN [s EXCEPT !.regeneration_cooldown = @ - 1]
    ELSE IF s.is_depleted /\ s.regeneration_rate > 0
    THEN add_food(s, s.regeneration_rate)
    ELSE s

\* a food source that expires after 4 seconds and refreshes after 3 more, or
\* with the times the other way round; main.source is the food source,
\* main.since the time at which it became unavailable (NoValue while it is
\* available)
InitFoodSource ==
    /\ colony = NewColony(1)
    /\ next_id = 1
    /\ now = 0
    /\ n_received = 0
    /\ field = NewField
    /\ ants = NoAnts
    /\ \E times \in {<<4, 3>>, <<2, 4>>} :
          /\ main = [source |-> FoodSource(2, 2, 1, times[1], times[2], 0),
                     since |-> NoValue] @@ NewMain
          /\ call = Event("FoodSource", [expiration_time |-> times[1],
                                         refresh_time |-> times[2]], NoValue)

\* the time at which the source became unavailable, after a call that made
\* it s at time t
Since(s, t) ==
    IF is_available(s) THEN NoValue
    ELSE IF main.since = NoValue THEN [value |-> t]
    ELSE main.since

\* time.time() moves on by a second
FoodClock ==
    /\ now < MaxFoodTime
    /\ now' = now + 1
    /\ call' = Event("time", [now |-> now + 1], NoValue)
    /\ UNCHANGED <<colony, next_id, n_received, field, ants, main>>

CollectFood(amounts) ==
    \E amount \in amounts :
        \E r \in {collect_food(main.source, amount)} :
            /\ main.n_calls < MaxFoodCalls
            /\ main' = [main EXCEPT !.source = r.source, !.since = Since(r.source, now),
                                    !.n_calls = @ + 1]
            /\ call' = Event("collect_food", [amount |-> amount], [collected |-> r.ret])
            /\ UNCHANGED <<colony, next_id, now, n_received, field, ants>>

FoodSourceUpdate ==
    \E r \in {FoodSource_update(main.source, 1, now)} :
        /\ main.n_calls < MaxFoodCalls
        /\ main' = [main EXCEPT !.source = r, !.since = Since(r, now), !.n_calls = @ + 1]
        /\ call' = Event("FoodSource.update", [delta_time |-> 1], NoValue)
        /\ UNCHANGED <<colony, next_id, now, n_received, field, ants>>

\* A food source: time passes, food is collected, the source is updated.
NextFoodSource ==
    \/ FoodClock
    \/ CollectFood({NoValue, [value |-> 2]})
    \/ FoodSourceUpdate

SpecFoodSource == InitFoodSource /\ [][NextFoodSource]_vars

\* survival_rate of Colony.get_statistics (colony.py:421), as the fraction
\* <<numerator, denominator>>
survival_rate(c) ==
    <<Max(1, c.total_ants_spawned) - c.total_ants_died, Max(1, c.total_ants_spawned)>>

TypeOK ==
    /\ next_id \in 1..(MaxAnts + 1)
    /\ now \in 0..MaxNow
    /\ colony.current_tick \in 0..MaxTick


(***************************************************************************)
(* Claims.                                                                 *)
(***************************************************************************)

\* population + queued eggs + queued pupae
Brood(c) == population(c) + Len(c.eggs) + Len(c.pupae)

C1_SumWithinCapacity == Brood(colony) <= colony.max_population

C1_LayEggStep ==
    call'.op = "lay_egg" =>
        /\ call'.ret.ok <=> Brood(colony) < colony.max_population
        /\ ~call'.ret.ok => colony' = colony
        /\ call'.ret.ok => /\ Len(colony'.eggs) = Len(colony.eggs) + 1
                           /\ Brood(colony') = Brood(colony) + 1

\* C1: lay_egg succeeds exactly when population + eggs + pupae < max_population,
\* a failed call leaves the colony (the egg queue included) unchanged, and
\* through lay_egg and update calls the sum never exceeds max_population.
C1_LayEggRespectsCapacity == [](C1_SumWithinCapacity) /\ [][C1_LayEggStep]_vars

\* C1 witness: a lay_egg call has just failed on a colony at capacity that holds eggs.
C1_Witness ==
    /\ call.op = "lay_egg"
    /\ call.ret.ok = FALSE
    /\ Brood(colony) = colony.max_population
    /\ colony.eggs # << >>

\* C2 (as claimed): the adult population never exceeds max_population.
C2_PopulationWithinCapacity ==
    /\ 0 <= population(colony)
    /\ population(colony) <= colony.max_population

C3_QueuesOnTime ==
    /\ \A i \in 1..Len(colony.eggs) :
        /\ colony.eggs[i].hatch_tick = colony.eggs[i].created_at + egg_duration
        /\ colony.current_tick < colony.eggs[i].hatch_tick
    /\ \A i \in 1..Len(colony.pupae) :
        /\ colony.pupae[i].hatch_tick = colony.pupae[i].created_at + pupa_duration
        /\ colony.current_tick < colony.pupae[i].hatch_tick

C3_UpdateStep ==
    LET T == colony.current_tick + 1
        dueEggs == SelectSeq(colony.eggs, LAMBDA e : e.created_at + egg_duration = T)
        keptEggs == SelectSeq(colony.eggs, LAMBDA e : e.created_at + egg_duration # T)
        duePupae == SelectSeq(colony.pupae, LAMBDA q : q.created_at + pupa_duration = T)
        keptPupae == SelectSeq(colony.pupae, LAMBDA q : q.created_at + pupa_duration # T)
        n == Len(colony'.ants)
        k == Len(duePupae)
    IN
    IF call'.op = "update"
    THEN /\ colony'.current_tick = T
         \* the eggs not due stay eggs (the queen may add one behind them)
         /\ Len(colony'.eggs) >= Len(keptEggs)
         /\ SubSeq(colony'.eggs, 1, Len(keptEggs)) = keptEggs
         \* the eggs due, and no others, are pupae from this tick on
         /\ colony'.pupae = keptPupae \o
                [i \in 1..Len(dueEggs) |->
                    [created_at |-> T, hatch_tick |-> T + pupa_duration,
                     caste |-> dueEggs[i].caste]]
         \* the pupae due, and no others, are adults of their caste
         /\ n >= k
         /\ \A i \in 1..k : colony'.ants[n - k + i] = Ant(next_id + i - 1, duePupae[i].caste)
         /\ colony'.total_ants_spawned = colony.total_ants_spawned + k
    ELSE /\ colony'.pupae = colony.pupae
         /\ colony'.ants = colony.ants
         /\ colony'.current_tick = colony.current_tick

\* C3: an egg laid at tick t becomes a pupa in the update of tick
\* t + egg_duration and in no other step; that pupa becomes an adult of the
\* egg's caste in the update of tick (its creation tick) + pupa_duration and in
\* no other step.
C3_HatchOnTime == [](C3_QueuesOnTime) /\ [][C3_UpdateStep]_vars

\* C3 witness: an update has just hatched a pupa into a SOLDIER, the caste of
\* an egg laid by hand (the queen lays workers).
C3_Witness ==
    /\ call.op = "update"
    /\ population(colony) > 0
    /\ colony.ants[Len(colony.ants)].caste = "SOLDIER"
    /\ colony.ant_lifespans[colony.ants[Len(colony.ants)].id] = now
    /\ colony.ant_health[colony.ants[Len(colony.ants)].id] = ant_max_health

C4_ReceiveFoodStep ==
    call'.op = "receive_food" =>
        /\ colony'.food_storage <= colony'.max_food_storage
        /\ call'.ret.amount <= colony.max_food_storage - colony.food_storage
        /\ colony'.food_storage = colony.food_storage + call'.ret.amount

\* C4: receive_food never raises food_storage above max_food_storage, returns
\* no more than the free space there was before the call, and changes
\* food_storage by exactly the value it returns.
C4_ReceiveFoodClamped == [][C4_ReceiveFoodStep]_vars

\* C4 witness: a receive_food call has just been cut down to the free space.
C4_Witness ==
    /\ call.op = "receive_food"
    /\ call.ret.amount < call.arg.amount
    /\ call.ret.amount > 0
    /\ colony.food_storage = colony.max_food_storage

\* C5 (as claimed): 0 <= food_storage <= max_food_storage in every state.
C5_FoodWithinStorage ==
    /\ 0 <= colony.food_storage
    /\ colony.food_storage <= colony.max_food_storage

\* the costs as the claim lists them (hundredths)
C6_Cost(caste) ==
    IF caste = "WORKER" THEN 1000
    ELSE IF caste = "SOLDIER" THEN 1500
    ELSE IF caste = "SCOUT" THEN 1200
    ELSE 800

C6_SpawnAntStep ==
    call'.op = "spawn_ant" =>
        LET caste == call'.arg.caste
            ok == /\ population(colony) < colony.max_population
                  /\ colony.food_storage >= C6_Cost(caste)
        IN
        /\ (call'.ret.ant # None) <=> ok
        /\ ok => /\ colony'.food_storage = colony.food_storage - C6_Cost(caste)
                 /\ colony'.ants = Append(colony.ants, call'.ret.ant)
                 /\ call'.ret.ant.caste = caste
                 /\ \A k \in AntCaste :
                        colony'.caste_populations[k] =
                            colony.caste_populations[k] + (IF k = caste THEN 1 ELSE 0)
                 /\ colony'.total_ants_spawned = colony.total_ants_spawned + 1
        /\ ~ok => colony' = colony

\* C6: spawn_ant(caste) succeeds exactly when population < max_population and
\* food_storage >= cost(caste); on success it charges exactly the cost and
\* adds one to the population, the caste's counter and total_ants_spawned; on
\* failure it returns None and changes nothing.
C6_SpawnAntAtomic == [][C6_SpawnAntStep]_vars

\* C6 witness: a SCOUT has just been spawned with the last food of the colony.
C6_Witness ==
    /\ call.op = "spawn_ant"
    /\ call.arg.caste = "SCOUT"
    /\ call.ret.ant # None
    /\ colony.food_storage = 0

\* C7 (as claimed): a newly constructed colony holds no food.
C7_NewColonyHoldsNoFood == call.op = "__init__" => colony.food_storage = 0

C8_SpawnMultipleStep ==
    call'.op = "spawn_multiple_ants" =>
        LET caste == call'.arg.caste
            count == call'.arg.count
            n == Min(count, Min(colony.max_population - population(colony),
                                colony.food_storage \div C6_Cost(caste)))
        IN
        /\ Len(call'.ret.ants) = n
        /\ population(colony') = population(colony) + n
        /\ colony'.food_storage = colony.food_storage - n * C6_Cost(caste)

\* C8 (as claimed): spawn_multiple_ants(caste, count) spawns exactly
\* min(count, max_population - population, floor(food_storage / cost)) ants
\* and charges the cost that many times.
C8_SpawnMultipleCount == [][C8_SpawnMultipleStep]_vars

CasteCount(c, k) == Cardinality({i \in 1..Len(c.ants) : c.ants[i].caste = k})

\* C9: each caste counter equals the number of roster ants of that caste, and
\* the counters add up to the population.
C9_CasteCountersMatchRoster ==
    /\ \A k \in AntCaste : colony.caste_populations[k] = CasteCount(colony, k)
    /\ colony.caste_populations["WORKER"] + colony.caste_populations["SOLDIER"]
         + colony.caste_populations["SCOUT"] + colony.caste_populations["NURSE"]
       = population(colony)

\* C9 witness: an ant has just been removed from a roster that still holds one.
C9_Witness ==
    /\ call.op = "remove_ant"
    /\ call.arg.ant # Stranger
    /\ call.arg.ant \notin RosterSet(colony)
    /\ population(colony) > 0
    /\ colony.total_ants_died > 0

C10_UpkeepStep ==
    call'.op = "update" =>
        LET mid == Hatched(colony, next_id, now)
            food_needed == population(mid) * food_consumption_rate
            old(a) == now - mid.ant_lifespans[a.id] > max_ant_lifespan
        IN
        IF mid.food_storage >= food_needed
        THEN /\ colony'.food_storage = mid.food_storage - food_needed
             /\ \A a \in RosterSet(mid) :
                    IF a \in RosterSet(colony')
                    THEN colony'.ant_health[a.id] = mid.ant_health[a.id]
                    ELSE old(a)
        ELSE /\ colony'.food_storage = 0
             /\ \A a \in RosterSet(mid) :
                    IF a \in RosterSet(colony')
                    THEN colony'.ant_health[a.id]
                            = mid.ant_health[a.id] - ant_health_loss_per_tick
                    ELSE \/ mid.ant_health[a.id] - ant_health_loss_per_tick <= 0
                         \/ old(a)

\* C10: in the food upkeep of update, if food_storage >= population x rate
\* exactly that much is eaten and no ant's health changes; otherwise
\* food_storage becomes 0 and every ant of the roster loses exactly
\* ant_health_loss_per_tick health.
C10_UpkeepAllOrNothing == [][C10_UpkeepStep]_vars

\* C10 witness: an update has just starved a roster of two ants, both of them.
C10_Witness ==
    /\ call.op = "update"
    /\ colony.food_storage = 0
    /\ population(colony) = 2
    /\ \A a \in RosterSet(colony) : colony.ant_health[a.id] = ant_max_health - 1

\* updates it takes a starving ant at full health to reach health <= 0
StarveTicks == (ant_max_health + ant_health_loss_per_tick - 1) \div ant_health_loss_per_tick

InRoster(id) == \E a \in RosterSet(colony) : a.id = id

C11_FullHealthAt(id, T) ==
    /\ colony.food_storage = 0
    /\ colony.current_tick = T
    /\ InRoster(id)
    /\ colony.ant_health[id] = ant_max_health

C11_FoodStaysZero == colony.food_storage = 0 => colony'.food_storage = 0

RosterIds(c) == {a.id : a \in RosterSet(c)}

C12_TablesMatchRoster ==
    /\ DOMAIN colony.ant_health = RosterIds(colony)
    /\ DOMAIN colony.ant_lifespans = RosterIds(colony)

C12_UpdateStep ==
    call'.op = "update" =>
        LET mid == FoodUpkeep(Hatched(colony, next_id, now))
            dead(a) == \/ mid.ant_health[a.id] <= 0
                       \/ now - mid.ant_lifespans[a.id] > max_ant_lifespan
            culled == {a \in RosterSet(mid) : dead(a)}
        IN
        /\ RosterSet(colony') = RosterSet(mid) \ culled
        /\ \A a \in RosterSet(colony') :
               /\ colony'.ant_health[a.id] > 0
               /\ now - colony'.ant_lifespans[a.id] <= max_ant_lifespan
        /\ colony'.total_ants_died = mid.total_ants_died + Cardinality(culled)
        /\ \A k \in AntCaste :
               colony'.caste_populations[k] =
                   Max(0, mid.caste_populations[k]
                            - Cardinality({a \in culled : a.caste = k}))

\* C12: after an update the roster holds no ant with health <= 0 or older
\* than max_ant_lifespan; each ant culled takes one from its caste counter
\* (not below 0) and adds one to total_ants_died; in every state the health
\* and lifespan tables hold entries for exactly the ants of the roster.
C12_CullingIsComplete == [](C12_TablesMatchRoster) /\ [][C12_UpdateStep]_vars

\* C12 witness: an update has just left one ant, starved to one tick from
\* death, in a roster from which the ant constructed before it is gone.
C12_Witness ==
    /\ call.op = "update"
    /\ colony.food_storage = 0
    /\ colony.ants = <<Ant(2, "WORKER")>>
    /\ colony.ant_health[2] = ant_max_health - ant_health_loss_per_tick
    /\ colony.current_tick = StarveTicks

C13_UpdateStep ==
    call'.op = "update" =>
        LET T == colony.current_tick + 1
            laid == /\ colony.egg_laying_cooldown <= 0
                    /\ Brood(colony) < colony.max_population
            keptEggs == SelectSeq(colony.eggs, LAMBDA e : e.hatch_tick > T)
            k == Len(SelectSeq(colony.pupae, LAMBDA q : q.hatch_tick <= T))
            newIds == next_id .. (next_id + k - 1)
            eaters == population(colony) + k
            fed == colony.food_storage >= eaters * food_consumption_rate
            levelUp == colony.experience_points >= colony.development_level * LEVEL_XP
        IN
        \* 1. the queen lays against the roster and the capacity found at the start
        /\ colony'.eggs = keptEggs \o
               (IF laid THEN <<[created_at |-> T, hatch_tick |-> T + egg_duration,
                                caste |-> "WORKER"]>>
                        ELSE << >>)
        \* 2, 3. the ants hatched in this tick eat and starve with the others
        /\ next_id' = next_id + k
        /\ colony'.food_storage =
               IF fed THEN colony.food_storage - eaters * food_consumption_rate ELSE 0
        /\ \A a \in RosterSet(colony') :
               a.id \in newIds =>
                   colony'.ant_health[a.id] =
                       IF fed THEN ant_max_health
                              ELSE ant_max_health - ant_health_loss_per_tick
        \* 4. an ant whose health the upkeep brought to 0 is gone in the same tick
        /\ \A a \in RosterSet(colony) :
               (~fed /\ colony.ant_health[a.id] - ant_health_loss_per_tick <= 0)
                   => a \notin RosterSet(colony')
        /\ \A a \in RosterSet(colony') : colony'.ant_health[a.id] > 0
        \* 5. the level-up comes last: its capacity is not yet there for the queen
        /\ colony'.max_population =
               colony.max_population + (IF levelUp THEN LEVEL_POP_BONUS ELSE 0)

\* C13: one update lays the queen's egg, hatches eggs and then pupae, feeds
\* the roster, culls, and last checks development: an ant hatched in a tick
\* eats and starves in that tick, an ant whose health reaches 0 in a tick's
\* upkeep is removed in that tick, and a level-up in a tick does not make
\* room for that tick's egg.
C13_UpdateOrder == [][C13_UpdateStep]_vars

\* C13 witness: an update has just hatched an ant into a colony without food,
\* at the first tick an egg can have grown up, and the ant has starved once.
C13_Witness ==
    /\ call.op = "update"
    /\ colony.food_storage = 0
    /\ colony.current_tick = egg_duration + pupa_duration
    /\ next_id = 2
    /\ colony.ants = <<Ant(1, "SOLDIER")>>
    /\ colony.ant_health[1] = ant_max_health - ant_health_loss_per_tick

\* the last update made an egg-laying attempt: it is the only step that sets
\* the cooldown to the interval
C14_Attempted == colony.egg_laying_cooldown = colony.egg_laying_interval

\* C14 (as claimed): consecutive egg-laying attempts are exactly
\* egg_laying_interval ticks apart: the first update attempts (the cooldown
\* starts at 0), so the updates that attempt are those of the ticks
\* 1, 1 + egg_laying_interval, 1 + 2 x egg_laying_interval, ...
C14_AttemptsIntervalApart ==
    colony.current_tick >= 1 =>
        (C14_Attempted <=> (colony.current_tick - 1) % colony.egg_laying_interval = 0)

C15_DevelopmentStep ==
    LET threshold == colony.development_level * LEVEL_XP
        levelUp == colony.experience_points >= threshold
    IN
    IF call'.op = "update" /\ levelUp
    THEN /\ colony'.development_level = colony.development_level + 1
         /\ colony'.experience_points = colony.experience_points - threshold
         /\ colony'.max_population = colony.max_population + LEVEL_POP_BONUS
         /\ colony'.max_food_storage = colony.max_food_storage + LEVEL_FOOD_BONUS
    ELSE /\ colony'.development_level = colony.development_level
         /\ colony'.max_population = colony.max_population
         /\ colony'.max_food_storage = colony.max_food_storage
         /\ call'.op = "update" => colony'.experience_points = colony.experience_points

\* C15: an update levels the colony up exactly when experience_points >=
\* development_level x 1000: one level, the old threshold taken from the
\* experience, 20 more max_population and 200 more max_food_storage; no other
\* step changes development_level, max_population or max_food_storage, so
\* none of them ever decreases.
C15_LevelUp == [][C15_DevelopmentStep]_vars

\* C15 witness: an update has just brought the colony to level 3, carrying
\* over the experience left from the 10000 points of a full store.
C15_Witness ==
    /\ call.op = "update"
    /\ colony.development_level = 3
    /\ colony.experience_points = INITIAL_MAX_FOOD - 3 * LEVEL_XP
    /\ colony.max_population > 2 * LEVEL_POP_BONUS
    /\ colony.max_food_storage = INITIAL_MAX_FOOD + 2 * LEVEL_FOOD_BONUS

\* every pheromone the manager or the ground holds
Live(f) == {f.pheromones[k] : k \in 1..Len(f.pheromones)}
               \cup {f.cell[k] : k \in 1..Len(f.cell)}

C16_WithinMax == \A p \in Live(field) : p.strength <= p.max_strength

C16_DecayStep ==
    \A p \in Live(field), q \in Live(field') :
        p.id = q.id =>
            /\ q.strength > p.strength => call'.op = "reinforce"
            /\ call'.op \in {"update_all", "GroundCell.update"} => q.strength <= p.strength

\* C16 (as claimed): every pheromone has strength <= max_strength in every
\* state, its strength rises only in a reinforce call, and every update
\* leaves it equal or lower.
C16_StrengthOnlyDecays == [](C16_WithinMax) /\ [][C16_DecayStep]_vars

\* C17 (as claimed): a pheromone deposited with a negative strength, decay
\* rate or radius is created with strength >= 0, decay_rate >= 0 and
\* radius_of_influence >= 0.
C17_DepositClamped ==
    call.op = "add_pheromone" =>
        /\ call.ret.pheromone.strength >= 0
        /\ call.ret.pheromone.decay_rate >= 0
        /\ call.ret.pheromone.radius_of_influence >= 0

\* the pheromones of the field an update_all at this time makes spread
Spreaders ==
    SelectSeq(field.pheromones, LAMBDA p :
        /\ p.can_spread /\ ~p.is_spread_deposit /\ ~p.has_spread
        /\ now - p.creation_time >= p.spread_delay)

\* spread deposits created so far in the run
SpreadDepositsMade(f) == (f.next_pid - 1) - f.n_deposited

\* C18 (as claimed): a pheromone deposited with can_spread = true has spread,
\* or spreads in this very update_all, when it is removed from the field.
C18_SpreadsExactlyOnce ==
    [][\A k \in 1..Len(field.pheromones) :
          LET p == field.pheromones[k] IN
          (p.can_spread /\ \A q \in Live(field') : q.id # p.id)
              => (p.has_spread \/ now - p.creation_time >= p.spread_delay)]_vars

C18_SpreadStep ==
    \A k \in 1..Len(field.pheromones) :
        LET p == field.pheromones[k]
            spreads == /\ call'.op = "update_all"
                       /\ \E j \in 1..Len(Spreaders) : Spreaders[j].id = p.id
        IN
        \* it spreads in the first update_all that finds it old enough, and
        \* has_spread is true from then on
        /\ \A q \in Live(field') :
              q.id = p.id => (q.has_spread <=> (p.has_spread \/ spreads))
        \* no step makes spread deposits unless a pheromone spreads in it
        /\ SpreadDepositsMade(field') > SpreadDepositsMade(field)
              => (call'.op = "update_all" /\ Spreaders # << >>)

\* C18 (amended): a pheromone deposited with can_spread = true spreads at most
\* once: in the first update_all that finds it in the field with age >=
\* spread_delay, after which has_spread stays true and it never spreads
\* again; all the spread deposits of a run come from such steps, at most 8
\* for each pheromone deposited.
C18_SpreadsAtMostOnce ==
    /\ [](SpreadDepositsMade(field) <= 8 * field.n_deposited)
    /\ [][C18_SpreadStep]_vars

\* C18 witness: a second update_all has run over a pheromone that spread in
\* the first one, and its 8 spread deposits are still all there are.
C18_Witness ==
    /\ call.op = "update_all"
    /\ field.n_updates = 2
    /\ field.n_deposited = 1
    /\ SpreadDepositsMade(field) = 8
    /\ \E p \in Live(field) : p.has_spread /\ p.id = 1

\* the positions of the spread deposits of p that fall inside the world
ChildPositions(p) ==
    {pos \in {<<p.position[1] + SpreadOffset(i, p.spread_radius)[1],
                p.position[2] + SpreadOffset(i, p.spread_radius)[2]>> : i \in 0..7} :
        InWorld(field, pos[1], pos[2])}

InWorldCount(p) ==
    Cardinality({i \in 0..7 :
        InWorld(field, p.position[1] + SpreadOffset(i, p.spread_radius)[1],
                       p.position[2] + SpreadOffset(i, p.spread_radius)[2])})

RECURSIVE SumInWorld(_)
SumInWorld(seq) == IF seq = << >> THEN 0 ELSE InWorldCount(Head(seq)) + SumInWorld(Tail(seq))

C19_SpreadDepositsStep ==
    call'.op = "update_all" =>
        LET new == {q \in Live(field') : q.id >= field.next_pid} IN
        \* 8 for each pheromone that spreads, less those outside the world
        /\ Cardinality(new) = SumInWorld(Spreaders)
        /\ field'.next_pid = field.next_pid + SumInWorld(Spreaders)
        \* each as its parent makes it, not yet decayed
        /\ \A q \in new :
              /\ q.is_spread_deposit /\ ~q.can_spread /\ ~q.has_spread
              /\ \E j \in 1..Len(Spreaders) :
                    LET p == Spreaders[j] IN
                    /\ q.position \in ChildPositions(p)
                    /\ q.strength = Frac(p.max_strength, p.spread_strength_factor)
                    /\ q.max_strength = q.strength
                    /\ q.decay_rate = p.decay_rate
                    /\ q.type = p.type
                    /\ q.radius_of_influence = Frac(p.radius_of_influence, <<4, 5>>)

C19_DepositsDoNotSpread ==
    /\ \A q \in Live(field) : q.is_spread_deposit => (~q.can_spread /\ ~q.has_spread)
    /\ SpreadDepositsMade(field) <= 8 * field.n_deposited

\* C19: the update_all in which pheromones spread adds, for each of them, 8
\* spread deposits less those outside the world bounds, each with strength
\* max_strength x spread_strength_factor of its parent (not yet decayed), the
\* parent's decay rate and type, 0.8 x its radius, is_spread_deposit true and
\* can_spread false; a spread deposit never spreads, so a deposit has at most
\* 8 descendants.
C19_SpreadDeposits == [](C19_DepositsDoNotSpread) /\ [][C19_SpreadDepositsStep]_vars

\* C19 witness: an update_all has just spread a pheromone in the corner of the
\* world: 3 of its 8 deposits are inside, at full strength.
C19_Witness ==
    /\ call.op = "update_all"
    /\ field.n_deposited = 1
    /\ SpreadDepositsMade(field) = 3
    /\ Cardinality({q \in Live(field) : q.is_spread_deposit /\ q.strength = 200
                                        /\ q.radius_of_influence = 1600}) = 3

\* the pheromones of the queried type within distance radius of the position
C20_InRadius(f, position, pheromone_type, radius) ==
    {p \in Live(f) : p.type = pheromone_type /\ distance_to(p, position) <= radius}

\* a direction of magnitude 1.0 (components in hundredths)
C20_UnitVector(r) ==
    /\ r # NoValue
    /\ r.value[1] * r.value[1] + r.value[2] * r.value[2] = 100 * 100

\* C20: get_pheromone_direction(position, type, radius) returns either a
\* unit-magnitude vector or None, and it returns None if and only if no
\* pheromone of the queried type lies within distance radius of the position.
C20_NoneIffNothingInRadius ==
    call.op = "get_pheromone_direction" =>
        /\ call.ret = NoValue \/ C20_UnitVector(call.ret)
        /\ call.ret = NoValue <=>
               C20_InRadius(field, call.arg.position, call.arg.pheromone_type,
                            call.arg.radius) = {}

\* the number of times identity id occurs in the bucket
C21_Occurrences(bucket, id) == Cardinality({i \in 1..Len(bucket) : bucket[i] = id})

C21_GridMatchesList ==
    /\ \A k \in 1..Len(field.pheromones) :
          LET p == field.pheromones[k]
              cell_key == _get_cell_key(field, p.position)
          IN /\ cell_key \in DOMAIN field.spatial_grid
             /\ \A key \in DOMAIN field.spatial_grid :
                   C21_Occurrences(field.spatial_grid[key], p.id)
                       = IF key = cell_key THEN 1 ELSE 0
    /\ \A key \in DOMAIN field.spatial_grid :
          \A i \in 1..Len(field.spatial_grid[key]) :
              \E k \in 1..Len(field.pheromones) :
                  field.pheromones[k].id = field.spatial_grid[key][i]

C21_RemovalStep ==
    call'.op = "remove_pheromone" =>
        LET id == call'.arg.pheromone.id IN
        /\ \A k \in 1..Len(field'.pheromones) : field'.pheromones[k].id # id
        /\ \A key \in DOMAIN field'.spatial_grid :
              C21_Occurrences(field'.spatial_grid[key], id) = 0

\* C21: after any sequence of add_pheromone, update_all (with spreading),
\* remove_pheromone and clear_all, every pheromone of the flat list is in
\* exactly one bucket of the grid, the one of the cell of its position, once;
\* the buckets hold no pheromone that is not in the list; and a removal takes
\* the pheromone out of the list and the grid in the same step.
C21_GridConsistent == [](C21_GridMatchesList) /\ [][C21_RemovalStep]_vars

\* C21 witness: a pheromone of the field has just been removed from outside
\* after an update_all, and the field still holds spread deposits in several
\* cells.
C21_Witness ==
    /\ call.op = "remove_pheromone"
    /\ call.arg.pheromone.id \in 1..(field.next_pid - 1)
    /\ field.n_updates >= 1
    /\ \E k \in 1..Len(field.pheromones) : field.pheromones[k].is_spread_deposit
    /\ Cardinality(DOMAIN field.spatial_grid) >= 2

C22_UntrackedRemovalStep ==
    /\ (call'.op = "remove_pheromone" /\ ~InField(field, call'.arg.pheromone)) =>
           /\ field'.pheromones = field.pheromones
           /\ field'.spatial_grid = field.spatial_grid
    /\ (call'.op = "remove_ant" /\ call'.arg.ant \notin RosterSet(colony)) =>
           colony' = colony

\* C22: remove_pheromone on a pheromone that is not in the field, and
\* remove_ant on an ant that is not in the roster (a second removal of the
\* same one included), leave the list, the grid, the roster, the health and
\* lifespan tables, the caste counters and total_ants_died unchanged.
C22_UntrackedRemovalIsNoOp == [][C22_UntrackedRemovalStep]_vars

\* C22 witness: after the removal of one of two deposited pheromones, a
\* pheromone that never was in the field has just been removed, in a run
\* where one ant of two was removed too.
C22_Witness ==
    /\ call.op = "remove_pheromone"
    /\ call.arg.pheromone = StrangerPheromone
    /\ field.n_removals = 2
    /\ Len(field.pheromones) = 1
    /\ field.n_deposited = 2
    /\ field.n_updates = 0
    /\ colony.total_ants_died = 1
    /\ Len(colony.ants) = 1

\* ceil(s / d) for d > 0
C23_Ceil(s, d) == (s + d - 1) \div d

C23_AllPositiveAfterUpdate ==
    call.op = "update_all" =>
        \A k \in 1..Len(field.pheromones) : field.pheromones[k].strength > 0

\* the update_all step removes exactly the pheromones for which it is the
\* ceil(s / d)-th update since their deposit (strength = s - n * d after n)
C23_RemovalStep ==
    call'.op = "update_all" =>
        \A k \in 1..Len(field.pheromones) :
            LET p == field.pheromones[k]
                nth == (p.max_strength - p.strength) \div p.decay_rate + 1
            IN p.decay_rate > 0 =>
                   (~InField(field', p) <=> nth = Max(1, C23_Ceil(p.max_strength, p.decay_rate)))

\* C23: after any update_all every pheromone left in the field has strength
\* > 0, and a pheromone deposited with strength s and decay rate d > 0, never
\* reinforced, is removed by exactly the ceil(s / d)-th update_all after its
\* deposit (so that the field empties once deposits stop).
C23_DepletedAreRemoved == [](C23_AllPositiveAfterUpdate) /\ [][C23_RemovalStep]_vars

\* C24: an ant's heading is normalized in every state reachable through
\* construction, set_orientation, the orientation setter, turn_towards,
\* random_walk and step: 0 <= orientation < 360.
C24_HeadingNormalized ==
    \A id \in DOMAIN ants : 0 <= ants[id].orientation /\ ants[id].orientation < 3600

\* C25: in every state reachable through step, accelerate, random_walk and
\* set_carrying_food, 0 <= velocity <= max_velocity, the ant's maximum at the
\* time (reduced while it carries food).
C25_VelocityBounded ==
    \A id \in DOMAIN ants :
        /\ ~QLess(ants[id].velocity, <<0, 1>>)
        /\ ~QLess(ants[id].max_velocity, ants[id].velocity)

\* the max_velocity Ant.__init__ gives the caste
C26_Base(caste) == NewAnt(<<0, 0>>, 0, caste).max_velocity

\* C26: after any sequence of set_carrying_food calls (repeated ones and
\* reset_ants_to_nest included) max_velocity is the ant's base value whenever
\* carrying_food is false and the one reduced value (0.7 x base) whenever it
\* is true, so that True followed by False restores the base value exactly.
C26_MaxVelocityRestored ==
    \A id \in DOMAIN ants :
        ants[id].max_velocity =
            IF ants[id].carrying_food THEN QMul(C26_Base(ants[id].caste), <<7, 10>>)
            ELSE C26_Base(ants[id].caste)

C29_InBounds(a) ==
    /\ a.world_bounds[1] <= a.position[1] /\ a.position[1] <= a.world_bounds[3]
    /\ a.world_bounds[2] <= a.position[2] /\ a.position[2] <= a.world_bounds[4]

\* what the step leaves of an ant that was on a wall and headed out of the
\* world: it is still on that wall
C29_StaysOnWall(a, b) ==
    /\ (a.position[1] = a.world_bounds[1] /\ Cos1000(b.orientation) <= 0 /\ ~QLess(b.velocity, <<0, 1>>))
           => b.position[1] = a.position[1]
    /\ (a.position[2] = a.world_bounds[4] /\ Sin1000(b.orientation) >= 0 /\ ~QLess(b.velocity, <<0, 1>>))
           => b.position[2] = a.position[2]

C29_MoveStep ==
    call'.op \in {"move", "random_walk", "step"} =>
        LET a == ants[call'.arg.id]
            b == ants'[call'.arg.id]
        IN /\ C29_InBounds(b)
           /\ call'.op = "move" =>
                  /\ b = [a EXCEPT !.position = b.position]
                  /\ (a.position[1] = a.world_bounds[1] /\ Cos1000(a.orientation) <= 0)
                         => b.position[1] = a.position[1]
           /\ call'.op = "random_walk" =>
                  /\ C29_StaysOnWall(a, b)
                  /\ b.velocity = accelerate(a, a.max_velocity).velocity

\* C29: after every move, and so after every step and random_walk, the ant
\* is inside its world bounds whatever its heading, velocity and previous
\* position; an ant on a wall and headed outwards stays on the wall, and the
\* clamp changes neither heading nor velocity.
C29_PositionClamped == [][C29_MoveStep]_vars

\* C29 witness: a random_walk has just left on the left wall an ant that
\* heads left at more than half its full speed.
C29_Witness ==
    /\ call.op = "random_walk"
    /\ ants[1].position[1] = ants[1].world_bounds[1]
    /\ ants[1].orientation = 1800
    /\ ~QLess(ants[1].velocity, <<1, 1>>)
    /\ main.n_calls >= 3

\* the angle between two headings, in 0..1800
C27_AngleBetween(a, b) == LET d == (a - b) % 3600 IN Min(d, 3600 - d)

\* the FOOD_TRAIL pheromones within the food-sensing radius of the ant
C27_FoodInRange(a, f) ==
    {p \in Live(f) : p.type = "FOOD_TRAIL" /\ distance_to(p, a.position) <= 6000}

\* the heading from the ant to the pheromone
C27_Bearing(a, p) == arctan2(p.position[2] - a.position[2], p.position[1] - a.position[1])

C27_FollowStep ==
    (/\ call'.op = "step"
     /\ ants[call'.arg.id].state = "SEARCHING"
     /\ ants[call'.arg.id].pheromone_manager = "PheromoneManager"
     /\ C27_FoodInRange(ants[call'.arg.id], field) # {}) =>
        LET a == ants[call'.arg.id]
            b == ants'[call'.arg.id]
        IN /\ b.state = "FOLLOWING_TRAIL"
           /\ C27_AngleBetween(b.orientation, a.orientation) <= a.turn_speed
           /\ \A p \in C27_FoodInRange(a, field) :
                  Cardinality(C27_FoodInRange(a, field)) = 1 =>
                      C27_AngleBetween(b.orientation, C27_Bearing(a, p))
                          <= C27_AngleBetween(a.orientation, C27_Bearing(a, p))

\* C27: when a FOOD_TRAIL pheromone lies within the food-sensing radius (60)
\* of a SEARCHING ant at the start of step, after that step the ant is in
\* FOLLOWING_TRAIL state and its heading has turned towards the pheromone, by
\* at most turn_speed degrees, whatever home trails are around.
C27_SearchingAntFollowsTrail == [][C27_FollowStep]_vars

\* the FOOD_TRAIL pheromones a field holds, whichever system keeps them
C28_FoodTrails(f) ==
    Len(SelectSeq(f.pheromones, LAMBDA p : p.type = "FOOD_TRAIL"))
    + Len(SelectSeq(f.cell, LAMBDA p : p.type = "FOOD_TRAIL"))

\* the heading from the ant to the nest
C28_NestBearing(a) ==
    arctan2(colony_position[2] - a.position[2], colony_position[1] - a.position[1])

C28_ReturningStep ==
    (/\ call'.op = "ant_update"
     /\ ants[call'.arg.id].state = "RETURNING"
     /\ ants[call'.arg.id].carrying_food) =>
        LET a == ants[call'.arg.id]
            b == ants'[call'.arg.id]
            amount == IF a.food_amount = NoValue THEN 500 ELSE a.food_amount.value
        IN IF DistSq(colony_position, a.position) < 2000 * 2000
           THEN /\ colony'.food_storage
                       = Min(colony.max_food_storage, colony.food_storage + amount)
                /\ ~b.carrying_food
                /\ b.state = IF a.food_source_position # NoValue
                             THEN "FOLLOWING_TRAIL" ELSE "SEARCHING"
           ELSE /\ main'.error = "None"
                /\ b.state = "RETURNING" /\ b.carrying_food
                /\ C27_AngleBetween(b.orientation, a.orientation) <= 30
                /\ C27_AngleBetween(b.orientation, C28_NestBearing(a))
                       <= C27_AngleBetween(a.orientation, C28_NestBearing(a))
                /\ C28_FoodTrails(field') = C28_FoodTrails(field) + 1

\* C28: in the main loop, an ant that is RETURNING with food within 20 of
\* the colony's position delivers in that tick: the colony receives its food,
\* carrying_food is cleared, and its state becomes FOLLOWING_TRAIL when a
\* food-source position was recorded for it and SEARCHING otherwise; further
\* away it turns towards the nest and one FOOD_TRAIL pheromone is deposited.
C28_ReturningAntDelivers == [][C28_ReturningStep]_vars

C30_FieldUpdatesFirst ==
    /\ colony.current_tick <= field.n_updates
    /\ field.n_updates <= colony.current_tick + 1

C30_TickStep ==
    /\ field'.n_updates # field.n_updates =>
           /\ colony.current_tick = field.n_updates
           /\ main.n_ticks = field.n_updates
    /\ colony'.current_tick # colony.current_tick =>
           /\ field.n_updates = colony.current_tick + 1
           /\ main.n_ticks = colony.current_tick
    /\ call'.op = "ant_update" =>
           /\ field.n_updates = main.n_ticks + 1
           /\ colony.current_tick = main.n_ticks + 1
           /\ Len(main.done) < Len(colony.ants)
           /\ call'.arg.id = colony.ants[Len(main.done) + 1].id
           /\ main'.done = Append(main.done, call'.arg.id)
           /\ Ids(colony'.ants) = Ids(colony.ants)
    /\ main'.n_ticks # main.n_ticks =>
           /\ main'.n_ticks = main.n_ticks + 1
           /\ main'.done = Ids(colony'.ants)

C31_SequentialStep ==
    call'.op = "ant_update" =>
        LET a == ants[call'.arg.id]
            b == ants'[call'.arg.id]
        IN \* the field is live and undecayed while the ants are handled
           /\ Live(field) \subseteq Live(field')
           \* the ants handled earlier in the tick are not touched again
           /\ \A id \in DOMAIN ants : id # call'.arg.id => ants'[id] = ants[id]
           /\ call'.arg.id \notin {main.done[k] : k \in 1..Len(main.done)}
           \* what a returning ant deposits is in the field, at full strength,
           \* for the ants the loop goes on to handle
           /\ (/\ a.state = "RETURNING" /\ a.carrying_food
               /\ DistSq(colony_position, a.position) >= 2000 * 2000) =>
                  /\ \E p \in Live(field') \ Live(field) :
                        /\ p.position = b.position
                        /\ p.type = "FOOD_TRAIL"
                        /\ p.strength = p.max_strength
                  /\ main'.error = "None"
                  /\ main'.todo = Tail(main.todo)

\* C31: within a tick the ants are handled one after the other against the
\* live field: the pheromone an ant deposits is in the field, undecayed, when
\* the ants after it in the roster are handled, and nothing an ant does
\* reaches an ant handled before it in the tick.
C31_SequentialAgainstLiveField == [][C31_SequentialStep]_vars

\* the radius the claim gives a pheromone of initial radius r0: r0 at full
\* strength, growing with the decayed fraction up to 1.5 r0 at strength 0

C32_RadiusOf(p, r0) ==
    /\ p.strength = p.max_strength => p.radius_of_influence = r0
    /\ p.strength = 0 => p.radius_of_influence = (3 * r0) \div 2
    /\ p.radius_of_influence >= r0
    /\ p.radius_of_influence <= (3 * r0) \div 2

\* C32: the current influence radius of a pheromone is non-decreasing in its
\* decayed fraction: the initial radius at full strength, 1.5 times the initial
\* radius at strength 0, never smaller for a weaker pheromone of the same
\* deposit strength; a position within that radius is in range of the pheromone.
C32_RadiusGrowsWithDecay ==
    /\ \A p \in Live(field) :
          (p.max_strength > 0 /\ p.strength >= 0 /\ p.strength <= p.max_strength) =>
              /\ C32_RadiusOf(p, DefaultArgs.radius_of_influence)
              /\ p.strength = 0 =>
                    is_within_range(p, <<p.position[1] + (3 * DefaultArgs.radius_of_influence) \div 2,
                                         p.position[2]>>)
    /\ \A p, q \in Live(field) :
          (p.max_strength = q.max_strength /\ p.strength <= q.strength) =>
              p.radius_of_influence >= q.radius_of_influence

\* the pheromones a gradient query at the position uses: those in range at a
\* distance > 0; a total-strength query uses all those in range
C33_Contributing(op, position, radius) ==
    LET nearby == GroundSystem_get_pheromones_in_range(field, position, radius,
                                                       [value |-> "FOOD_TRAIL"])
    IN IF op = "GroundSystem.get_total_strength" THEN nearby
       ELSE SelectSeq(nearby, LAMBDA p : distance_to(p, position) # 0)

C33_QueryStep ==
    call'.op \in {"GroundSystem.get_pheromone_direction", "GroundSystem.get_total_strength"} =>
        LET used == C33_Contributing(call'.op, call'.arg.position, call'.arg.radius) IN
        \A k \in 1..Len(used) :
            \E j \in 1..Len(field'.all_pheromones) :
                LET before == used[k]
                    after == field'.all_pheromones[j]
                IN /\ after.id = before.id
                   /\ {"usage_count", "trail_quality"} \subseteq DOMAIN after
                   /\ {"usage_count", "trail_quality"} \subseteq DOMAIN before
                   /\ after.usage_count = before.usage_count + 1
                   /\ after.trail_quality >= before.trail_quality
                   /\ after.trail_quality \in 100..300

\* C33 (as claimed): every pheromone that contributes to a gradient query or
\* to a total-strength query of the ground system has its usage count
\* incremented by one and its trail quality increased by that query, and the
\* trail quality stays within [1.0, 3.0].
C33_QueryMarksUsage == [][C33_QueryStep]_vars

\* the operations of the field an ant or the main loop calls
C34_FieldOperations ==
    {"Ant.deposit_pheromone", "Ant.sense_pheromone_gradient",
     "GroundSystem.get_pheromones_in_range", "GroundSystem.get_total_strength",
     "GroundSystem.get_pheromone_direction", "GroundSystem.update_all"}

C34_OperationStep == call'.op \in C34_FieldOperations => call'.ret.error = "None"

\* C34 (as claimed): for an ant attached to a GroundSystem (as for one attached
\* to a PheromoneManager) deposit_pheromone, sense_pheromone_gradient, the
\* range and total-strength queries and update_all always complete: none
\* raises an exception.
C34_FieldOperationsComplete == [][C34_OperationStep]_vars

\* a food-trail gradient is sensed by the ant (ant.py:252, 272)
C35_FoodSensed(a) == sense_pheromone_gradient(a, field, "FOOD_TRAIL", 6000) # NoValue

C35_StepChange ==
    call'.op = "step" =>
        LET a == ants[call'.arg.id]
            b == ants'[call'.arg.id]
        IN /\ a.state = "SEARCHING" =>
                  b.state = IF C35_FoodSensed(a) THEN "FOLLOWING_TRAIL" ELSE "SEARCHING"
           /\ a.state = "FOLLOWING_TRAIL" =>
                  b.state = IF C35_FoodSensed(a) THEN "FOLLOWING_TRAIL" ELSE "SEARCHING"
           /\ a.state \in {"IDLE", "RETURNING"} =>
                  /\ b.state = a.state
                  /\ b.position = a.position
                  /\ b.orientation = a.orientation
                  /\ b.velocity = a.velocity
           /\ field' = field

C35_LeavesIdle ==
    \A id \in DOMAIN ants :
        ants[id].state = "IDLE" /\ ants'[id].state # "IDLE" => call'.op = "set_state"

\* C35: Ant.step changes the state only from SEARCHING to FOLLOWING_TRAIL, when
\* a food-trail gradient is sensed, and from FOLLOWING_TRAIL to SEARCHING, when
\* none is sensed; for an ant in IDLE or RETURNING it leaves the state, the
\* position, the heading and the velocity unchanged; it deposits nothing; and
\* an ant leaves IDLE only by a set_state from outside.
C35_StepTransitions == [][C35_StepChange /\ C35_LeavesIdle]_vars

\* C35 witness: a RETURNING ant that has speed and senses a food trail has
\* just stepped, and its state is still RETURNING.
C35_Witness ==
    /\ call.op = "step"
    /\ ants[1].state = "RETURNING"
    /\ ants[1].velocity # <<0, 1>>
    /\ C35_FoodSensed(ants[1])

\* the Ant objects of the roster
C36_Roster == {ants[colony.ants[i].id] : i \in 1..Len(colony.ants)}

C36_BoundsOfColony == \A a \in C36_Roster : a.world_bounds = main.world_bounds

C36_MoveStep ==
    call'.op = "move" =>
        LET a == ants'[call'.arg.id] IN
        /\ a.position[1] \in main.world_bounds[1]..main.world_bounds[3]
        /\ a.position[2] \in main.world_bounds[2]..main.world_bounds[4]

\* C36 (as claimed): after Colony.set_world_bounds(b) every ant of the roster,
\* the ants created later by spawn_ant, by hatching or by add_ant included,
\* has the world bounds b, and its moves are clamped to b.
C36_AntsHaveColonyBounds == [](C36_BoundsOfColony) /\ [][C36_MoveStep]_vars

C37_FoodStep ==
    /\ call'.op = "collect_food" /\ ~is_available(main.source) =>
           call'.ret.collected = 0 /\ main'.source = main.source
    /\ call'.op = "FoodSource.update" /\ ~is_available(main.source) =>
           IF now - main.since.value >= main.source.refresh_time
           THEN is_available(main'.source) /\ main'.source.amount = main.source.max_amount
           ELSE ~is_available(main'.source)

\* C37 (as claimed): a food source that has become unavailable, depleted by
\* collect_food or expired, stays unavailable (collect_food returns 0 and
\* changes nothing, update leaves it unavailable) until refresh_time seconds
\* have passed since it became unavailable; the update that then follows
\* refreshes it to max_amount.
C37_RefreshAfterRefreshTime == [][C37_FoodStep]_vars

C38_SpawnStep ==
    /\ call'.op = "spawn_multiple_ants" =>
           (can_spawn_caste(colony, call'.arg.caste, call'.arg.count)
                <=> Len(call'.ret.ants) = call'.arg.count)
    /\ call'.op \in {"spawn_multiple_ants", "_produce_ants"} =>
           population(colony') - population(colony) = Len(call'.ret.ants)
    /\ call'.op = "_produce_ants" => Len(call'.ret.ants) \in {0, call'.arg.count}

\* C38: can_spawn_caste(caste, count) is True exactly when the
\* spawn_multiple_ants(caste, count) that follows at once creates count ants
\* (count >= 1), and the queen controls' production creates all the ants
\* asked for or none.
C38_CanSpawnIffAllSpawn == [][C38_SpawnStep]_vars

\* C38 witness: spawn_multiple_ants has just created one SOLDIER of the two
\* asked for, the food not sufficing for the second.
C38_Witness ==
    /\ call.op = "spawn_multiple_ants"
    /\ call.arg.count = 2
    /\ Len(call.ret.ants) = 1
    /\ population(colony) < colony.max_population

\* C39 (as claimed): in every state reached by spawn_ant, hatching, add_ant,
\* remove_ant and update the population is total_ants_spawned minus
\* total_ants_died, total_ants_died is at most total_ants_spawned, and the
\* survival rate of get_statistics lies in [0, 1].
C39_PopulationAccounting ==
    /\ population(colony) = colony.total_ants_spawned - colony.total_ants_died
    /\ colony.total_ants_died <= colony.total_ants_spawned
    /\ survival_rate(colony)[1] \in 0..survival_rate(colony)[2]

C40_HeldByItsCell ==
    \A k \in 1..Len(field.all_pheromones) :
        /\ CellsHolding(field, field.all_pheromones[k])
               = {GroundSystem_get_cell_key(field, field.all_pheromones[k].position)}
        /\ Cardinality({j \in 1..Len(field.ground_grid) :
                            field.ground_grid[j].id = field.all_pheromones[k].id}) = 1

\* the pheromone lies within the radius of the position
C40_Within(p, position, radius) ==
    /\ Abs(p.position[1] - position[1]) <= radius
    /\ Abs(p.position[2] - position[2]) <= radius
    /\ distance_to(p, position) <= radius

C40_GroundStep ==
    /\ call'.op = "GroundSystem.update_all" =>
           \A k \in 1..Len(field.all_pheromones) :
               LET p == field.all_pheromones[k] IN
               p.decay_rate > 0 =>
                   \A j \in 1..Len(field'.all_pheromones) :
                       field'.all_pheromones[j].id = p.id =>
                           field'.all_pheromones[j].strength \in 1..(p.strength - 1)
    /\ call'.op = "GroundSystem.get_pheromones_in_range" =>
           \A k \in 1..Len(field.all_pheromones) :
               LET p == field.all_pheromones[k] IN
               C40_Within(p, call'.arg.position, call'.arg.radius) =>
                   \E j \in 1..Len(call'.ret.ids) : call'.ret.ids[j] = p.id

\* C40 (as claimed): in the ground system, for deposits at any position,
\* inside the world bounds or outside them, every pheromone of all_pheromones
\* is held by exactly one ground cell, the cell of its position; so update_all
\* decays every tracked pheromone (removing those that reach 0) and a range
\* query returns every tracked pheromone within its radius.
C40_TrackedPheromonesAreInCells == [](C40_HeldByItsCell) /\ [][C40_GroundStep]_vars

====
